---- MODULE Spec2Model ----
(***************************************************************************)
(* The render / mix / encode / broadcast pipeline of claude-dj-mcp         *)
(* (src/src/stream-manager.ts, src/src/mp3-encoder.ts).                    *)
(*                                                                         *)
(* stream-manager.ts holds two variants of the stream manager: the         *)
(* pre-render variant (lines 1-274) and the incremental-render variant     *)
(* (lines 276-545).  The variable `variant` says which of the two a        *)
(* behaviour runs.  Every action is one run-to-completion step of the      *)
(* Node.js event loop: a control call, a timer callback up to its first    *)
(* await, or the continuation after an await.                              *)
(*                                                                         *)
(* Units: time in ms, tempo in milli-cycles per second, cycle position in  *)
(* milli-cycles, samples in 1/1000 of full scale.                          *)
(***************************************************************************)
EXTENDS Integers, Sequences, FiniteSets, TLC

\* ---------------------------------------------------------------- bounds
\* Timer handles setTimeout may hand out in one behaviour.
MaxTimers == 2
\* flush() calls one encoder instance may see.
MaxFlushes == 2
\* setPattern() calls that may be suspended in the pre-render at one time.
MaxPending == 2
\* Timer handles in the behaviours that follow the audio sent over many cycles.
BuildUpTimers == 7
\* Entries the announcement queue may hold.
MaxQueue == 2
\* Samples per second (44100 in the source, scaled down).
SAMPLE_RATE == 2

\* ------------------------------------------------------ program constants
CHUNK_DURATION == 2
BUFFER_DURATION == 30
BUFFER_AHEAD_MS == 6000
MinDelayMs == 10

NoPattern == "null"
Patterns == {"p1", "p2"}
CpsValues == {500, 1000}
Sinks == {"s1"}
NoTimer == 0
\* pcmBuffer is null, or holds one rendered buffer: a sequence of none or one.
NoBuffer == <<>>
\* The values Date.now() is observed to return.
Times == {1000, 3000}
\* Byte lengths encodeChunk()/flush() may return: 0 while lamejs is buffering.
EncodedLens == {0, 1}

Max(a, b) == IF a >= b THEN a ELSE b
Min(a, b) == IF a <= b THEN a ELSE b

VARIABLES
  variant,          \* "incremental" | "prerender"
  timerBudget,      \* the timer handles setTimeout may hand out in this behaviour
  currentPattern, currentCps, cyclePosition, isPlaying, renderLoopTimer,
  clients, encoder, ttsQueue, ttsOffset, streamStartTime, totalAudioSent,
  armed,            \* the timers setTimeout armed that neither fired nor were cleared
  nextTimer,        \* the next timer handle setTimeout returns
  inflight,         \* renderAndBroadcast calls suspended in `await renderChunk`
  pcmBuffer, bufferPosition,
  pending,          \* pre-render setPattern calls suspended in `await renderChunk`
  clock,            \* the last value Date.now() returned
  wire,             \* history: the broadcast() writes of the last step
  sinkPool,         \* the responses that may be handed to addClient in this behaviour
  heard,            \* history: for each response the behaviour follows, what was
                    \* done to it so far, in order: writeHead, writes, close
  lastMix,          \* history: the chunk the last step's mixTts() call was
                    \* given and what it left in it; empty when it made none
  last              \* history: the operation of the last step

\* The state of http-server.ts, of index.ts and of the browser page.
VARIABLES
  pendingAction,    \* http-server.ts: the action the page is to run, with its version
  requestQueue,     \* http-server.ts: the audience requests not yet drained
  serverPort,       \* http-server.ts: the port of the last server that listened
  servers,          \* the ports this process listens on
  busyPorts,        \* the ports other processes hold in this behaviour
  sessionActive, sessionId, sessionUrl,
  currentPatternCode,
  lastVersion,      \* the page: the version of the last action it ran
  posts,            \* handleRequestPost calls suspended in `await parseBody`
  polls,            \* poll() calls of the page suspended in `await fetch`
  starting,         \* start_session calls suspended in initEngine or startHttpServer
  evaluating,       \* play_pattern calls suspended in `await evaluatePattern`
  accepted,         \* history: the requests handleRequestPost pushed, in order
  drained,          \* history: what each drainRequests() call returned, in order
  executed,         \* history: the versions of the actions the page ran, in order
  returned          \* history: what the last call that completed returned

hostVars == <<pendingAction, requestQueue, serverPort, servers, busyPorts,
              sessionActive, sessionId, sessionUrl, currentPatternCode,
              lastVersion, posts, polls, starting, evaluating,
              accepted, drained, executed, returned>>

vars == <<hostVars, variant, timerBudget, sinkPool, heard, currentPattern, currentCps, cyclePosition, isPlaying,
          renderLoopTimer, clients, encoder, ttsQueue, ttsOffset,
          streamStartTime, totalAudioSent, armed, nextTimer, inflight, clock,
          pcmBuffer, bufferPosition, pending, wire, lastMix, last>>

\* The program's own state: everything but the history variables.
progVars == <<variant, timerBudget, sinkPool, currentPattern, currentCps, cyclePosition, isPlaying,
              renderLoopTimer, clients, encoder, ttsQueue, ttsOffset,
              streamStartTime, totalAudioSent, armed, nextTimer, inflight, clock,
              pcmBuffer, bufferPosition, pending>>

\* ---------------------------------------------------------------- PCM
\* new Float32Array(n): n zero samples per channel.
Silence(n) == [left |-> [i \in 1..n |-> 0], right |-> [i \in 1..n |-> 0]]
\* Math.ceil(CHUNK_DURATION * SAMPLE_RATE)
ChunkSamples == CHUNK_DURATION * SAMPLE_RATE

\* The external renderer: seconds * SAMPLE_RATE samples per channel for the
\* window [cycleStart, cycleEnd) at tempo cps; a sample depends on the
\* pattern and on its place in pattern time.
renderChunk(pattern, cycleStart, cycleEnd, cps) ==
  LET n == ((cycleEnd - cycleStart) * SAMPLE_RATE) \div cps
      first == (cycleStart * SAMPLE_RATE) \div cps
      v(i) == 10 * (((first + i) % 40) + 1)
  IN [left  |-> [i \in 1..n |-> IF pattern = "p1" THEN v(i) ELSE -v(i)],
      right |-> [i \in 1..n |-> IF pattern = "p1" THEN -v(i) ELSE v(i)]]

\* Announcement buffers mixTtsAudio() is called with: one shorter and one
\* longer than a chunk, every sample different.
TtsInputs ==
  {[left  |-> [i \in 1..n |-> 50 * n + 100 * i],
    right |-> [i \in 1..n |-> -(50 * n + 100 * i)]] :
     n \in {1, ChunkSamples + 1}}

\* ------------------------------------------------------------ encoder
\* new Mp3StreamEncoder(): `id` names the instance, `flushed` counts the
\* flush() calls it has seen.
NewEncoder(id) == [id |-> id, flushed |-> 0]

\* Storing the number n / 1000 into an Int16Array element: the fraction is
\* dropped, then the integer wraps to 16 bits.
ToInt16(n) ==
  LET whole == IF n >= 0 THEN n \div 1000 ELSE -((-n) \div 1000)
  IN ((whole + 32768) % 65536) - 32768

\* The loop body of encodeChunk for one sample x (in 1/1000 of full scale):
\* clamp to [-1, 1], scale by 0x8000 below zero and by 0x7fff otherwise.
FloatToInt16(x) ==
  LET l == Max(-1000, Min(1000, x))
  IN ToInt16(IF l < 0 THEN l * 32768 ELSE l * 32767)

\* encodeChunk() converting the samples without clamping them first.
encodeChunkNoClamp(enc, pcm, kind, session, from, len) ==
  LET noClamp(x) == ToInt16(IF x < 0 THEN x * 32768 ELSE x * 32767)
  IN [kind |-> kind, enc |-> enc.id, after |-> enc.flushed, session |-> session,
      from |-> from, len |-> len,
      int16 |-> [left  |-> [i \in 1..Len(pcm.left) |-> noClamp(pcm.left[i])],
                 right |-> [i \in 1..Len(pcm.left) |-> noClamp(pcm.right[i])]]]

\* encodeChunk(left, right) on instance enc: the buffer returned.  `len` is
\* its length in bytes, `kind` what was encoded, `session` the encoder that
\* was current when the render cycle it comes from began, `after` the
\* flush() calls the instance had seen, `int16` the samples handed to lamejs,
\* `from` where the chunk begins: the start of the render window in pattern
\* time, the offset into the loop buffer, 0 for the silence of stop().
encodeChunk(enc, pcm, kind, session, from, len) ==
  [kind |-> kind, enc |-> enc.id, after |-> enc.flushed, session |-> session,
   from |-> from, len |-> len,
   int16 |-> [left  |-> [i \in 1..Len(pcm.left) |-> FloatToInt16(pcm.left[i])],
              right |-> [i \in 1..Len(pcm.left) |-> FloatToInt16(pcm.right[i])]]]

\* flush() on instance enc: the instance afterwards and the buffer returned.
flush(enc, len) ==
  [enc  |-> [enc EXCEPT !.flushed = @ + 1],
   data |-> [kind |-> "flush", enc |-> enc.id, after |-> enc.flushed,
             session |-> enc.id, len |-> len]]

\* ---------------------------------------------------------- broadcast
\* broadcast(data) with a throw of client.write() ending the loop: the
\* clients whose write throws were written to, nobody is deleted.
broadcastNoCatch(cl, data, failing) ==
  IF data.len = 0
    THEN [clients |-> cl, wire |-> <<>>]
    ELSE IF cl \cap failing = {}
      THEN [clients |-> cl, wire |-> <<[data |-> data, to |-> cl, failed |-> {}]>>]
      ELSE [clients |-> cl,
            wire |-> <<[data |-> data, to |-> {}, failed |-> cl \cap failing]>>]

\* broadcast(data): nothing for an empty buffer; otherwise every client is
\* written to, and a client whose write throws (those in failing) is deleted.
\* Yields the clients afterwards and the writes made: who took the buffer and
\* whose write threw.
broadcast(cl, data, failing) ==
  IF data.len = 0
    THEN [clients |-> cl, wire |-> <<>>]
    ELSE [clients |-> cl \ failing,
          wire |-> <<[data |-> data, to |-> cl \ failing,
                      failed |-> cl \cap failing]>>]

\* ---------------------------------------------------------------- mixTts
\* The mix loop ducking the music up to the end of the chunk, also where no
\* announcement sample is left to mix.
RECURSIVE mixLoopDucksTail(_, _, _, _, _)
mixLoopDucksTail(left, right, outputIdx, queue, offset) ==
  IF ~(outputIdx < Len(left) /\ Len(queue) > 0)
    THEN [left  |-> [i \in 1..Len(left) |->
                       IF i > outputIdx THEN (left[i] * 4) \div 10 ELSE left[i]],
          right |-> [i \in 1..Len(right) |->
                       IF i > outputIdx THEN (right[i] * 4) \div 10 ELSE right[i]],
          queue |-> queue, offset |-> offset]
    ELSE
      LET tts == queue[1]
          ttsRemaining == Len(tts.left) - offset
          toMix == Min(ttsRemaining, Len(left) - outputIdx)
          mixed(ch, t) ==
            [i \in 1..Len(ch) |->
               IF i > outputIdx /\ i <= outputIdx + toMix
                 THEN (ch[i] * 4 + t[offset + (i - outputIdx)] * 12) \div 10
                 ELSE ch[i]]
          offset2 == offset + toMix
          done == offset2 >= Len(tts.left)
      IN mixLoopDucksTail(mixed(left, tts.left), mixed(right, tts.right),
                          outputIdx + toMix,
                          IF done THEN Tail(queue) ELSE queue,
                          IF done THEN 0 ELSE offset2)

\* The mix loop without `ttsOffset = 0` after the shift.
RECURSIVE mixLoopNoReset(_, _, _, _, _)
mixLoopNoReset(left, right, outputIdx, queue, offset) ==
  IF ~(outputIdx < Len(left) /\ Len(queue) > 0)
    THEN [left |-> left, right |-> right, queue |-> queue, offset |-> offset]
    ELSE
      LET tts == queue[1]
          ttsRemaining == Len(tts.left) - offset
          toMix == Min(ttsRemaining, Len(left) - outputIdx)
          mixed(ch, t) ==
            [i \in 1..Len(ch) |->
               IF i > outputIdx /\ i <= outputIdx + toMix
                 THEN (ch[i] * 4 + t[offset + (i - outputIdx)] * 12) \div 10
                 ELSE ch[i]]
          offset2 == offset + toMix
          done == offset2 >= Len(tts.left)
      IN mixLoopNoReset(mixed(left, tts.left), mixed(right, tts.right),
                        outputIdx + Max(toMix, 0),
                        IF done THEN Tail(queue) ELSE queue,
                        offset2)

RECURSIVE mixLoop(_, _, _, _, _)
mixLoop(left, right, outputIdx, queue, offset) ==
  IF ~(outputIdx < Len(left) /\ Len(queue) > 0)
    THEN [left |-> left, right |-> right, queue |-> queue, offset |-> offset]
    ELSE
      LET tts == queue[1]
          ttsRemaining == Len(tts.left) - offset
          toMix == Min(ttsRemaining, Len(left) - outputIdx)
          mixed(ch, t) ==
            [i \in 1..Len(ch) |->
               IF i > outputIdx /\ i <= outputIdx + toMix
                 THEN (ch[i] * 4 + t[offset + (i - outputIdx)] * 12) \div 10
                 ELSE ch[i]]
          offset2 == offset + toMix
          done == offset2 >= Len(tts.left)
      IN mixLoop(mixed(left, tts.left), mixed(right, tts.right),
                 outputIdx + toMix,
                 IF done THEN Tail(queue) ELSE queue,
                 IF done THEN 0 ELSE offset2)

\* mixTts() without its early return, ducking the music whatever the queue.
mixTtsAlwaysDucks(pcm, queue, offset) ==
  mixLoop([i \in 1..Len(pcm.left) |-> (pcm.left[i] * 4) \div 10],
          [i \in 1..Len(pcm.right) |-> (pcm.right[i] * 4) \div 10],
          0, queue, offset)

\* mixTts() clamping what it writes to full scale.
mixTtsClamps(pcm, queue, offset) ==
  LET m == IF Len(queue) = 0
             THEN [left |-> pcm.left, right |-> pcm.right, queue |-> queue,
                   offset |-> offset]
             ELSE mixLoop(pcm.left, pcm.right, 0, queue, offset)
      clamp(ch) == [i \in 1..Len(ch) |-> Max(-1000, Min(1000, ch[i]))]
  IN [left |-> clamp(m.left), right |-> clamp(m.right), queue |-> m.queue,
      offset |-> m.offset]

\* mixTts() returning at once whatever the queue holds.
mixTtsSkips(pcm, queue, offset) ==
  [left |-> pcm.left, right |-> pcm.right, queue |-> queue, offset |-> offset]

mixTts(pcm, queue, offset) ==
  IF Len(queue) = 0
    THEN [left |-> pcm.left, right |-> pcm.right, queue |-> queue, offset |-> offset]
    ELSE mixLoop(pcm.left, pcm.right, 0, queue, offset)

\* The samples per channel of the announcements of queue q.
RECURSIVE SamplesIn(_)
SamplesIn(q) == IF q = <<>> THEN 0 ELSE Len(Head(q).left) + SamplesIn(Tail(q))

\* No mixTts() call, and the record of one: the chunk before and after.
NoMix == <<>>
MixOf(pcm, m) ==
  <<[before |-> pcm, after |-> [left |-> m.left, right |-> m.right]]>>

\* ------------------------------------------------------- listener log
\* What is noted of a response: writeHead(200, ...), a write(data) that
\* returned (ok) or threw, the "close" event.
WriteHead == [what |-> "writeHead"]
Closed == [what |-> "close"]
Written(data, ok) == [what |-> "write", data |-> data, ok |-> ok]

\* No response is followed.
NoneHeard == [s \in {} |-> <<>>]

\* The log with items noted of response s, when s is followed.
Noted(log, s, items) ==
  [r \in DOMAIN log |-> IF r = s THEN log[r] \o items ELSE log[r]]

\* The write() calls the broadcasts of a step (writes) made on response s.
RECURSIVE WritesTo(_, _)
WritesTo(writes, s) ==
  IF writes = <<>> THEN <<>>
  ELSE LET w == Head(writes)
           it == IF s \in w.to THEN <<Written(w.data, TRUE)>>
                 ELSE IF s \in w.failed THEN <<Written(w.data, FALSE)>>
                 ELSE <<>>
       IN it \o WritesTo(Tail(writes), s)

\* The log after a step whose broadcasts made the given writes.
Hear(log, writes) == [r \in DOMAIN log |-> log[r] \o WritesTo(writes, r)]

\* http-server.ts, index.ts and the page as loaded: no session, nothing
\* queued, version 0, no call in progress; other processes hold the ports busy.
HostStart(busy) ==
  /\ pendingAction = [action |-> "evaluate", code |-> "", version |-> 0]
  /\ requestQueue = <<>>
  /\ serverPort = 0
  /\ servers = {}
  /\ busyPorts = busy
  /\ sessionActive = FALSE
  /\ sessionId = ""
  /\ sessionUrl = ""
  /\ currentPatternCode = ""
  /\ lastVersion = 0
  /\ posts = <<>>
  /\ polls = <<>>
  /\ starting = <<>>
  /\ evaluating = <<>>
  /\ accepted = <<>>
  /\ drained = <<>>
  /\ executed = <<>>
  /\ returned = [of |-> "none"]

\* No port held by another process.
HostInit == HostStart({})

\* ------------------------------------------------------------------ Init
\* stream-manager.ts after module load, in a behaviour that may use `timers`
\* timers and connect the responses of pool, those of followed being followed.
StreamInit(timers, pool, followed) ==
  /\ variant \in {"incremental", "prerender"}
  /\ timerBudget = timers
  /\ sinkPool = pool
  /\ heard = [s \in followed |-> <<>>]
  /\ currentPattern = NoPattern
  /\ currentCps = 500
  /\ cyclePosition = 0
  /\ isPlaying = FALSE
  /\ renderLoopTimer = NoTimer
  /\ clients = {}
  /\ encoder = NewEncoder(0)
  /\ ttsQueue = <<>>
  /\ ttsOffset = 0
  /\ streamStartTime = 0
  /\ totalAudioSent = 0
  /\ armed = {}
  /\ nextTimer = 1
  /\ inflight = {}
  /\ clock = 1000
  /\ pcmBuffer = NoBuffer
  /\ bufferPosition = 0
  /\ pending = <<>>
  /\ wire = <<>>
  /\ lastMix = NoMix
  /\ last = [op |-> "init", wasPlaying |-> FALSE, stale |-> FALSE]

\* The process after module load.
InitFor(timers, pool, followed) == StreamInit(timers, pool, followed) /\ HostInit

\* The same with one response, not followed.
InitWith(timers) == InitFor(timers, Sinks, {})

Init == InitWith(MaxTimers)
\* The same, for behaviours one timer longer.
InitDeep == InitWith(MaxTimers + 1)

\* State only the incremental-render variant has, and only the pre-render one.
incOnly == <<cyclePosition, streamStartTime, totalAudioSent, inflight, clock>>
preOnly == <<pcmBuffer, bufferPosition, pending>>

\* Date.now(): the clock never runs backwards.
NowValues == {clock} \cup {t \in Times : t >= clock}

\* The history record of a step running operation name.
Op(name) == [op |-> name, wasPlaying |-> isPlaying, stale |-> FALSE]

\* setTimeout(callback, delay) with handle id, called at time at.
Timer(id, delay, at) == [id |-> id, delay |-> delay, at |-> at]

\* clearTimeout(handle): a handle that already fired clears nothing.
clearTimeout(timers, handle) == {t \in timers : t.id # handle}

\* The tail of stop() ending with every response removed from the set.
StopTailDisconnects ==
  /\ encoder.flushed < MaxFlushes
  /\ armed' = clearTimeout(armed, renderLoopTimer)
  /\ renderLoopTimer' = NoTimer
  /\ \E len1, len2 \in EncodedLens, f1 \in SUBSET clients :
       LET d1 == encodeChunk(encoder, Silence(SAMPLE_RATE \div 2), "silence",
                             encoder.id, 0, len1)
           e2 == flush(encoder, len2)
           b1 == broadcast(clients, d1, f1)
       IN \E f2 \in SUBSET b1.clients :
            LET b2 == broadcast(b1.clients, e2.data, f2)
            IN /\ (len1 = 0 => f1 = {})
               /\ (len2 = 0 => f2 = {})
               /\ encoder' = e2.enc
               /\ clients' = {}
               /\ wire' = b1.wire \o b2.wire
               /\ heard' = Hear(heard, wire')
               /\ lastMix' = NoMix

\* The tail of stop(), the same in both variants: clear the timer, encode
\* half a second of silence, flush, broadcast both buffers.
StopTail ==
  /\ encoder.flushed < MaxFlushes
  /\ armed' = clearTimeout(armed, renderLoopTimer)
  /\ renderLoopTimer' = NoTimer
  /\ \E len1, len2 \in EncodedLens, f1 \in SUBSET clients :
       LET d1 == encodeChunk(encoder, Silence(SAMPLE_RATE \div 2), "silence",
                             encoder.id, 0, len1)
           e2 == flush(encoder, len2)
           b1 == broadcast(clients, d1, f1)
       IN \E f2 \in SUBSET b1.clients :
            LET b2 == broadcast(b1.clients, e2.data, f2)
            IN /\ (len1 = 0 => f1 = {})
               /\ (len2 = 0 => f2 = {})
               /\ encoder' = e2.enc
               /\ clients' = b2.clients
               /\ wire' = b1.wire \o b2.wire
               /\ heard' = Hear(heard, wire')
               /\ lastMix' = NoMix

\* ------------------------------------------- incremental-render variant
\* scheduleNextChunk() without the Math.max(delay, 10) floor.
scheduleNextChunkNoFloor(playing, sst, tas, now, handle, timers, nxt) ==
  IF ~playing
    THEN [renderLoopTimer |-> handle, armed |-> timers, nextTimer |-> nxt,
          streamStartTime |-> sst]
    ELSE
      LET started == IF sst = 0 THEN now ELSE sst
          aheadBy == tas * 1000 - (now - started)
          delay == IF aheadBy > BUFFER_AHEAD_MS THEN aheadBy - BUFFER_AHEAD_MS ELSE 0
      IN [renderLoopTimer |-> nxt,
          armed |-> timers \cup {Timer(nxt, delay, now)},
          nextTimer |-> nxt + 1,
          streamStartTime |-> started]

\* scheduleNextChunk(): what it leaves in renderLoopTimer, the timers armed,
\* the next handle and streamStartTime, called in a state with the given
\* isPlaying, streamStartTime and totalAudioSent when Date.now() returns now.
scheduleNextChunk(playing, sst, tas, now, handle, timers, nxt) ==
  IF ~playing
    THEN [renderLoopTimer |-> handle, armed |-> timers, nextTimer |-> nxt,
          streamStartTime |-> sst]
    ELSE
      LET started == IF sst = 0 THEN now ELSE sst
          aheadBy == tas * 1000 - (now - started)
          delay == IF aheadBy > BUFFER_AHEAD_MS THEN aheadBy - BUFFER_AHEAD_MS ELSE 0
      IN [renderLoopTimer |-> nxt,
          armed |-> timers \cup {Timer(nxt, Max(delay, MinDelayMs), now)},
          nextTimer |-> nxt + 1,
          streamStartTime |-> started]

\* start() without its `if (isPlaying) return` guard.
startCallNoGuard(now) ==
  LET s == scheduleNextChunk(TRUE, 0, 0, now, renderLoopTimer, armed, nextTimer)
  IN /\ nextTimer <= timerBudget
     /\ isPlaying' = TRUE
     /\ encoder' = NewEncoder(encoder.id + 1)
     /\ totalAudioSent' = 0
     /\ streamStartTime' = s.streamStartTime
     /\ renderLoopTimer' = s.renderLoopTimer
     /\ armed' = s.armed
     /\ nextTimer' = s.nextTimer
     /\ clock' = now

\* start() without the reset of streamStartTime and totalAudioSent.
startCallKeepsCounters(now) ==
  IF isPlaying
    THEN UNCHANGED <<isPlaying, encoder, totalAudioSent, streamStartTime,
                     renderLoopTimer, armed, nextTimer, clock>>
    ELSE
      LET s == scheduleNextChunk(TRUE, streamStartTime, totalAudioSent, now,
                                 renderLoopTimer, armed, nextTimer)
      IN /\ nextTimer <= timerBudget
         /\ isPlaying' = TRUE
         /\ encoder' = NewEncoder(encoder.id + 1)
         /\ UNCHANGED totalAudioSent
         /\ streamStartTime' = s.streamStartTime
         /\ renderLoopTimer' = s.renderLoopTimer
         /\ armed' = s.armed
         /\ nextTimer' = s.nextTimer
         /\ clock' = now

\* start() without its scheduleNextChunk() call.
startCallNoSchedule(now) ==
  IF isPlaying
    THEN UNCHANGED <<isPlaying, encoder, totalAudioSent, streamStartTime,
                     renderLoopTimer, armed, nextTimer, clock>>
    ELSE /\ nextTimer <= timerBudget
         /\ isPlaying' = TRUE
         /\ encoder' = NewEncoder(encoder.id + 1)
         /\ totalAudioSent' = 0
         /\ streamStartTime' = 0
         /\ clock' = now
         /\ UNCHANGED <<renderLoopTimer, armed, nextTimer>>

\* start(): nothing when already playing; otherwise a fresh encoder, the
\* counters reset, scheduleNextChunk().
startCall(now) ==
  IF isPlaying
    THEN UNCHANGED <<isPlaying, encoder, totalAudioSent, streamStartTime,
                     renderLoopTimer, armed, nextTimer, clock>>
    ELSE
      LET s == scheduleNextChunk(TRUE, 0, 0, now, renderLoopTimer, armed, nextTimer)
      IN /\ nextTimer <= timerBudget
         /\ isPlaying' = TRUE
         /\ encoder' = NewEncoder(encoder.id + 1)
         /\ totalAudioSent' = 0
         /\ streamStartTime' = s.streamStartTime
         /\ renderLoopTimer' = s.renderLoopTimer
         /\ armed' = s.armed
         /\ nextTimer' = s.nextTimer
         /\ clock' = now

start ==
  /\ variant = "incremental"
  /\ \E now \in NowValues : (isPlaying => now = clock) /\ startCall(now)
  /\ wire' = <<>>
  /\ heard' = Hear(heard, wire')
  /\ lastMix' = NoMix
  /\ last' = Op("start")
  /\ UNCHANGED <<hostVars, variant, timerBudget, sinkPool, currentPattern, currentCps, cyclePosition, clients,
                 ttsQueue, ttsOffset, inflight>>
  /\ UNCHANGED preOnly

setPattern ==
  /\ variant = "incremental"
  /\ \E p \in Patterns : currentPattern' = p
  /\ \E now \in NowValues : (isPlaying => now = clock) /\ startCall(now)
  /\ wire' = <<>>
  /\ heard' = Hear(heard, wire')
  /\ lastMix' = NoMix
  /\ last' = Op("setPattern")
  /\ UNCHANGED <<hostVars, variant, timerBudget, sinkPool, currentCps, cyclePosition, clients, ttsQueue,
                 ttsOffset, inflight>>
  /\ UNCHANGED preOnly

setCps ==
  /\ variant = "incremental"
  /\ \E c \in CpsValues : currentCps' = c
  /\ wire' = <<>>
  /\ heard' = Hear(heard, wire')
  /\ lastMix' = NoMix
  /\ last' = Op("setCps")
  /\ UNCHANGED <<hostVars, variant, timerBudget, sinkPool, currentPattern, isPlaying, renderLoopTimer, clients,
                 encoder, ttsQueue, ttsOffset, armed, nextTimer>>
  /\ UNCHANGED incOnly
  /\ UNCHANGED preOnly

stop ==
  /\ variant = "incremental"
  /\ isPlaying' = FALSE
  /\ currentPattern' = NoPattern
  /\ StopTail
  /\ last' = Op("stop")
  /\ UNCHANGED <<hostVars, variant, timerBudget, sinkPool, currentCps, ttsQueue, ttsOffset, nextTimer>>
  /\ UNCHANGED incOnly
  /\ UNCHANGED preOnly

\* The locals of a renderAndBroadcast() call begun by the timer with handle
\* id; enc is the encoder that is current when the call begins.
CycleOf(id) ==
  [id |-> id, pattern |-> currentPattern, cycleStart |-> cyclePosition,
   cycleEnd |-> cyclePosition + currentCps * CHUNK_DURATION,
   cps |-> currentCps, enc |-> encoder.id]

\* renderAndBroadcast() from the mix on: mixTts, encodeChunk, broadcast,
\* advance cyclePosition and totalAudioSent, scheduleNextChunk().
FinishCycle(cycle, pcm, opname) ==
  \E m \in {mixTts(pcm, ttsQueue, ttsOffset)} :
     \E len \in EncodedLens, f \in SUBSET clients, now \in NowValues :
       LET d == encodeChunk(encoder, m, "audio", cycle.enc, cycle.cycleStart, len)
           b == broadcast(clients, d, f)
           s == scheduleNextChunk(isPlaying, streamStartTime,
                                  totalAudioSent + CHUNK_DURATION, now,
                                  renderLoopTimer,
                                  {t \in armed : t.id # cycle.id}, nextTimer)
       IN /\ (len = 0 => f = {})
          /\ (isPlaying => nextTimer <= timerBudget)
          /\ (~isPlaying => now = clock)
          /\ ttsQueue' = m.queue
          /\ ttsOffset' = m.offset
          /\ clients' = b.clients
          /\ wire' = b.wire
          /\ heard' = Hear(heard, wire')
          /\ lastMix' = MixOf(pcm, m)
          /\ cyclePosition' = cycle.cycleEnd
          /\ totalAudioSent' = totalAudioSent + CHUNK_DURATION
          /\ renderLoopTimer' = s.renderLoopTimer
          /\ armed' = s.armed
          /\ nextTimer' = s.nextTimer
          /\ streamStartTime' = s.streamStartTime
          /\ clock' = now
          /\ last' = Op(opname)

\* A timer fires and runs renderAndBroadcast(): it returns at once when not
\* playing, suspends in `await renderChunk` when there is a pattern, and
\* otherwise runs to its end on a chunk of silence.
timerFire ==
  /\ variant = "incremental"
  /\ \E t \in armed :
       IF ~isPlaying \/ currentPattern # NoPattern
         THEN /\ armed' = armed \ {t}
              /\ inflight' = IF isPlaying THEN inflight \cup {CycleOf(t.id)}
                                          ELSE inflight
              /\ wire' = <<>>
              /\ heard' = Hear(heard, wire')
              /\ lastMix' = NoMix
              /\ last' = Op("timerFire")
              /\ UNCHANGED <<cyclePosition, renderLoopTimer, clients,
                             ttsQueue, ttsOffset, streamStartTime,
                             totalAudioSent, nextTimer, clock>>
         ELSE /\ FinishCycle(CycleOf(t.id), Silence(ChunkSamples), "timerFire")
              /\ UNCHANGED inflight
  /\ UNCHANGED <<hostVars, variant, timerBudget, sinkPool, currentPattern, currentCps, isPlaying, encoder>>
  /\ UNCHANGED preOnly

\* The continuation reading currentPattern and currentCps again after the
\* await instead of keeping the values of the top of the cycle.
renderChunkReturnsLateRead ==
  /\ variant = "incremental"
  /\ \E c \in inflight :
       LET late == [c EXCEPT !.pattern = currentPattern, !.cps = currentCps,
                             !.cycleEnd = c.cycleStart + currentCps * CHUNK_DURATION]
       IN /\ FinishCycle(late, renderChunk(late.pattern, late.cycleStart,
                                           late.cycleEnd, late.cps),
                         "renderChunkReturns")
          /\ inflight' = inflight \ {c}
  /\ UNCHANGED <<hostVars, variant, timerBudget, sinkPool, currentPattern, currentCps, isPlaying, encoder>>
  /\ UNCHANGED preOnly

\* A timer fires no earlier than the delay it was armed with.
timerFireDue ==
  /\ timerFire
  /\ \A t \in armed \ armed' : clock >= t.at + t.delay

\* Time passes until the next armed timer is due.
timePasses ==
  /\ variant = "incremental"
  /\ \E t \in armed :
       /\ t.at + t.delay > clock
       /\ \A u \in armed : u.at + u.delay > clock => u.at + u.delay >= t.at + t.delay
       /\ clock' = t.at + t.delay
  /\ wire' = <<>>
  /\ heard' = Hear(heard, wire')
  /\ lastMix' = NoMix
  /\ last' = Op("timePasses")
  /\ UNCHANGED <<hostVars, variant, timerBudget, sinkPool, currentPattern, currentCps, cyclePosition, isPlaying,
                 renderLoopTimer, clients, encoder, ttsQueue, ttsOffset,
                 streamStartTime, totalAudioSent, armed, nextTimer, inflight>>
  /\ UNCHANGED preOnly

\* renderChunk resolves: the suspended renderAndBroadcast() runs to its end.
renderChunkReturns ==
  /\ variant = "incremental"
  /\ \E c \in inflight :
       \E result \in {renderChunk(c.pattern, c.cycleStart, c.cycleEnd, c.cps)} :
         /\ FinishCycle(c, result, "renderChunkReturns")
         /\ inflight' = inflight \ {c}
  /\ UNCHANGED <<hostVars, variant, timerBudget, sinkPool, currentPattern, currentCps, isPlaying, encoder>>
  /\ UNCHANGED preOnly

\* renderChunkThrows without the scheduleNextChunk() call after the catch.
renderChunkThrowsNoRearm ==
  /\ variant = "incremental"
  /\ \E c \in inflight : inflight' = inflight \ {c}
  /\ wire' = <<>>
  /\ heard' = Hear(heard, wire')
  /\ lastMix' = NoMix
  /\ last' = Op("renderChunkThrows")
  /\ UNCHANGED <<hostVars, variant, timerBudget, sinkPool, currentPattern, currentCps, cyclePosition, isPlaying,
                 clients, encoder, ttsQueue, ttsOffset, totalAudioSent,
                 renderLoopTimer, armed, nextTimer, streamStartTime, clock>>
  /\ UNCHANGED preOnly

\* renderChunk rejects and the cycle still counts as done: cyclePosition
\* and totalAudioSent advance as after a broadcast.
renderChunkThrowsAdvances ==
  /\ variant = "incremental"
  /\ \E c \in inflight, now \in NowValues :
       LET s == scheduleNextChunk(isPlaying, streamStartTime,
                                  totalAudioSent + CHUNK_DURATION,
                                  now, renderLoopTimer, armed, nextTimer)
       IN /\ (isPlaying => nextTimer <= timerBudget)
          /\ (~isPlaying => now = clock)
          /\ inflight' = inflight \ {c}
          /\ cyclePosition' = c.cycleEnd
          /\ renderLoopTimer' = s.renderLoopTimer
          /\ armed' = s.armed
          /\ nextTimer' = s.nextTimer
          /\ streamStartTime' = s.streamStartTime
          /\ clock' = now
  /\ totalAudioSent' = totalAudioSent + CHUNK_DURATION
  /\ wire' = <<>>
  /\ heard' = Hear(heard, wire')
  /\ lastMix' = NoMix
  /\ last' = Op("renderChunkThrows")
  /\ UNCHANGED <<hostVars, variant, timerBudget, sinkPool, currentPattern, currentCps, isPlaying,
                 clients, encoder, ttsQueue, ttsOffset>>
  /\ UNCHANGED preOnly

\* renderChunk rejects: the catch block logs, then scheduleNextChunk().
renderChunkThrows ==
  /\ variant = "incremental"
  /\ \E c \in inflight, now \in NowValues :
       LET s == scheduleNextChunk(isPlaying, streamStartTime, totalAudioSent,
                                  now, renderLoopTimer, armed, nextTimer)
       IN /\ (isPlaying => nextTimer <= timerBudget)
          /\ (~isPlaying => now = clock)
          /\ inflight' = inflight \ {c}
          /\ renderLoopTimer' = s.renderLoopTimer
          /\ armed' = s.armed
          /\ nextTimer' = s.nextTimer
          /\ streamStartTime' = s.streamStartTime
          /\ clock' = now
  /\ wire' = <<>>
  /\ heard' = Hear(heard, wire')
  /\ lastMix' = NoMix
  /\ last' = Op("renderChunkThrows")
  /\ UNCHANGED <<hostVars, variant, timerBudget, sinkPool, currentPattern, currentCps, cyclePosition, isPlaying,
                 clients, encoder, ttsQueue, ttsOffset, totalAudioSent>>
  /\ UNCHANGED preOnly

\* renderAndBroadcast() from the mix on when encodeChunk() throws: the chunk
\* is mixed, the catch block logs, nothing is broadcast or advanced, then
\* scheduleNextChunk().
ThrowInCycle(pcm, timers) ==
  LET m == mixTts(pcm, ttsQueue, ttsOffset)
  IN \E now \in NowValues :
       LET s == scheduleNextChunk(isPlaying, streamStartTime, totalAudioSent,
                                  now, renderLoopTimer, timers, nextTimer)
       IN /\ (isPlaying => nextTimer <= timerBudget)
          /\ (~isPlaying => now = clock)
          /\ ttsQueue' = m.queue
          /\ ttsOffset' = m.offset
          /\ lastMix' = MixOf(pcm, m)
          /\ renderLoopTimer' = s.renderLoopTimer
          /\ armed' = s.armed
          /\ nextTimer' = s.nextTimer
          /\ streamStartTime' = s.streamStartTime
          /\ clock' = now

\* encodeChunk() throws in a cycle: one that resumed after renderChunk, or
\* one a timer began with no pattern set.
encodeChunkThrows ==
  /\ variant = "incremental"
  /\ \/ \E c \in inflight :
          /\ ThrowInCycle(renderChunk(c.pattern, c.cycleStart, c.cycleEnd, c.cps),
                          armed)
          /\ inflight' = inflight \ {c}
     \/ \E t \in armed :
          /\ isPlaying
          /\ currentPattern = NoPattern
          /\ ThrowInCycle(Silence(ChunkSamples), armed \ {t})
          /\ UNCHANGED inflight
  /\ wire' = <<>>
  /\ heard' = Hear(heard, wire')
  /\ last' = Op("encodeChunkThrows")
  /\ UNCHANGED <<hostVars, variant, timerBudget, sinkPool, currentPattern, currentCps, cyclePosition, isPlaying,
                 clients, encoder, totalAudioSent>>
  /\ UNCHANGED preOnly

\* --------------------------------------------------- pre-render variant
\* scheduleNextChunk(): a timer of one chunk duration while playing.
preScheduleNextChunk(playing, handle, timers, nxt) ==
  IF ~playing
    THEN [renderLoopTimer |-> handle, armed |-> timers, nextTimer |-> nxt]
    ELSE [renderLoopTimer |-> nxt,
          armed |-> timers \cup {Timer(nxt, CHUNK_DURATION * 1000, clock)},
          nextTimer |-> nxt + 1]

\* start(): nothing when already playing; otherwise a fresh encoder and
\* scheduleNextChunk().
preStartCall ==
  IF isPlaying
    THEN UNCHANGED <<isPlaying, encoder, renderLoopTimer, armed, nextTimer>>
    ELSE
      LET s == preScheduleNextChunk(TRUE, renderLoopTimer, armed, nextTimer)
      IN /\ nextTimer <= timerBudget
         /\ isPlaying' = TRUE
         /\ encoder' = NewEncoder(encoder.id + 1)
         /\ renderLoopTimer' = s.renderLoopTimer
         /\ armed' = s.armed
         /\ nextTimer' = s.nextTimer

preStart ==
  /\ variant = "prerender"
  /\ preStartCall
  /\ wire' = <<>>
  /\ heard' = Hear(heard, wire')
  /\ lastMix' = NoMix
  /\ last' = Op("start")
  /\ UNCHANGED <<hostVars, variant, timerBudget, sinkPool, currentPattern, currentCps, clients, ttsQueue, ttsOffset>>
  /\ UNCHANGED incOnly
  /\ UNCHANGED preOnly

\* A setPattern(pattern, cps) call suspended in `await renderChunk`; stale
\* becomes true when stop() runs while the call is suspended.
PendingCall(pattern, cps) == [pattern |-> pattern, cps |-> cps, stale |-> FALSE]

\* setPattern(pattern, cps) up to its await.
preSetPattern ==
  /\ variant = "prerender"
  /\ Len(pending) < MaxPending
  /\ \E p \in Patterns, c \in CpsValues :
       /\ currentPattern' = p
       /\ currentCps' = c
       /\ pending' = Append(pending, PendingCall(p, c))
  /\ wire' = <<>>
  /\ heard' = Hear(heard, wire')
  /\ lastMix' = NoMix
  /\ last' = Op("setPattern")
  /\ UNCHANGED <<hostVars, variant, timerBudget, sinkPool, isPlaying, renderLoopTimer, clients, encoder,
                 ttsQueue, ttsOffset, armed, nextTimer, pcmBuffer, bufferPosition>>
  /\ UNCHANGED incOnly

\* setCps(cps): with a pattern playing it goes on into setPattern().
preSetCps ==
  /\ variant = "prerender"
  /\ \E c \in CpsValues :
       /\ currentCps' = c
       /\ IF currentPattern # NoPattern /\ isPlaying
            THEN /\ Len(pending) < MaxPending
                 /\ pending' = Append(pending, PendingCall(currentPattern, c))
            ELSE UNCHANGED pending
  /\ wire' = <<>>
  /\ heard' = Hear(heard, wire')
  /\ lastMix' = NoMix
  /\ last' = Op("setCps")
  /\ UNCHANGED <<hostVars, variant, timerBudget, sinkPool, currentPattern, isPlaying, renderLoopTimer, clients,
                 encoder, ttsQueue, ttsOffset, armed, nextTimer, pcmBuffer,
                 bufferPosition>>
  /\ UNCHANGED incOnly

RemoveAt(seq, i) == SubSeq(seq, 1, i - 1) \o SubSeq(seq, i + 1, Len(seq))

\* The pre-render of a suspended setPattern() resolves: the buffer is swapped
\* in, and start() is called when not playing.
preRenderReturns ==
  /\ variant = "prerender"
  /\ \E i \in 1..Len(pending) :
       LET call == pending[i]
       IN /\ pcmBuffer' = <<renderChunk(call.pattern, 0,
                                        call.cps * BUFFER_DURATION, call.cps)>>
          /\ bufferPosition' = 0
          /\ pending' = RemoveAt(pending, i)
          /\ last' = [op |-> "preRenderReturns", wasPlaying |-> isPlaying,
                      stale |-> call.stale]
  /\ preStartCall
  /\ wire' = <<>>
  /\ heard' = Hear(heard, wire')
  /\ lastMix' = NoMix
  /\ UNCHANGED <<hostVars, variant, timerBudget, sinkPool, currentPattern, currentCps, clients, ttsQueue, ttsOffset>>
  /\ UNCHANGED incOnly

\* The pre-render rejects: setPattern() rejects and changes nothing more.
preRenderThrows ==
  /\ variant = "prerender"
  /\ \E i \in 1..Len(pending) :
       /\ pending' = RemoveAt(pending, i)
       /\ last' = [op |-> "preRenderThrows", wasPlaying |-> isPlaying,
                   stale |-> pending[i].stale]
  /\ wire' = <<>>
  /\ heard' = Hear(heard, wire')
  /\ lastMix' = NoMix
  /\ UNCHANGED <<hostVars, variant, timerBudget, sinkPool, currentPattern, currentCps, isPlaying,
                 renderLoopTimer, clients, encoder, ttsQueue, ttsOffset, armed,
                 nextTimer, pcmBuffer, bufferPosition>>
  /\ UNCHANGED incOnly

\* stop() of the pre-render variant leaving bufferPosition where it was.
preStopKeepsPosition ==
  /\ variant = "prerender"
  /\ isPlaying' = FALSE
  /\ currentPattern' = NoPattern
  /\ pcmBuffer' = NoBuffer
  /\ bufferPosition' = bufferPosition
  /\ StopTail
  /\ pending' = [i \in 1..Len(pending) |-> [pending[i] EXCEPT !.stale = TRUE]]
  /\ last' = Op("stop")
  /\ UNCHANGED <<hostVars, variant, timerBudget, sinkPool, currentCps, ttsQueue, ttsOffset, nextTimer>>
  /\ UNCHANGED incOnly

preStop ==
  /\ variant = "prerender"
  /\ isPlaying' = FALSE
  /\ currentPattern' = NoPattern
  /\ pcmBuffer' = NoBuffer
  /\ bufferPosition' = 0
  /\ StopTail
  /\ pending' = [i \in 1..Len(pending) |-> [pending[i] EXCEPT !.stale = TRUE]]
  /\ last' = Op("stop")
  /\ UNCHANGED <<hostVars, variant, timerBudget, sinkPool, currentCps, ttsQueue, ttsOffset, nextTimer>>
  /\ UNCHANGED incOnly

\* The copy loop without the modulo: zeros past the end of the buffer.
CopyChunkNoWrap(buf, position) ==
  LET bufLen == Len(buf.left)
      at(ch, i) == IF position + i <= bufLen THEN ch[position + i] ELSE 0
  IN [left  |-> [i \in 1..ChunkSamples |-> at(buf.left, i)],
      right |-> [i \in 1..ChunkSamples |-> at(buf.right, i)]]

\* The chunk playAndBroadcast() copies out of the circular buffer.
CopyChunk(buf, position) ==
  LET bufLen == Len(buf.left)
      src(i) == ((position + (i - 1)) % bufLen) + 1
  IN [left  |-> [i \in 1..ChunkSamples |-> buf.left[src(i)]],
      right |-> [i \in 1..ChunkSamples |-> buf.right[src(i)]]]

\* A timer fires and runs playAndBroadcast(): copy a chunk (or silence), mix,
\* encode, broadcast, scheduleNextChunk().
playAndBroadcast ==
  /\ variant = "prerender"
  /\ \E t \in armed :
       IF ~isPlaying
         THEN /\ armed' = armed \ {t}
              /\ wire' = <<>>
              /\ heard' = Hear(heard, wire')
              /\ lastMix' = NoMix
              /\ UNCHANGED <<renderLoopTimer, clients, ttsQueue, ttsOffset,
                             nextTimer, bufferPosition>>
         ELSE
           LET pcm == IF pcmBuffer # NoBuffer
                        THEN CopyChunk(pcmBuffer[1], bufferPosition)
                        ELSE Silence(ChunkSamples)
               s == preScheduleNextChunk(isPlaying, renderLoopTimer,
                                         armed \ {t}, nextTimer)
           IN \E m \in {mixTts(pcm, ttsQueue, ttsOffset)} :
              \E len \in EncodedLens, f \in SUBSET clients :
                LET d == encodeChunk(encoder, m, "audio", encoder.id, bufferPosition, len)
                    b == broadcast(clients, d, f)
                IN /\ (len = 0 => f = {})
                   /\ nextTimer <= timerBudget
                   /\ bufferPosition' =
                        IF pcmBuffer # NoBuffer
                          THEN (bufferPosition + ChunkSamples) % Len(pcmBuffer[1].left)
                          ELSE bufferPosition
                   /\ ttsQueue' = m.queue
                   /\ ttsOffset' = m.offset
                   /\ clients' = b.clients
                   /\ wire' = b.wire
                   /\ heard' = Hear(heard, wire')
                   /\ lastMix' = MixOf(pcm, m)
                   /\ renderLoopTimer' = s.renderLoopTimer
                   /\ armed' = s.armed
                   /\ nextTimer' = s.nextTimer
  /\ last' = Op("timerFire")
  /\ UNCHANGED <<hostVars, variant, timerBudget, sinkPool, currentPattern, currentCps, isPlaying, encoder,
                 pcmBuffer, pending>>
  /\ UNCHANGED incOnly

\* A timer fires and encodeChunk() throws in playAndBroadcast(): the chunk is
\* copied and mixed, the catch block logs, then scheduleNextChunk().
preEncodeChunkThrows ==
  /\ variant = "prerender"
  /\ isPlaying
  /\ nextTimer <= timerBudget
  /\ \E t \in armed :
       LET pcm == IF pcmBuffer # NoBuffer
                    THEN CopyChunk(pcmBuffer[1], bufferPosition)
                    ELSE Silence(ChunkSamples)
           m == mixTts(pcm, ttsQueue, ttsOffset)
           s == preScheduleNextChunk(isPlaying, renderLoopTimer,
                                     armed \ {t}, nextTimer)
       IN /\ bufferPosition' =
               IF pcmBuffer # NoBuffer
                 THEN (bufferPosition + ChunkSamples) % Len(pcmBuffer[1].left)
                 ELSE bufferPosition
          /\ ttsQueue' = m.queue
          /\ ttsOffset' = m.offset
          /\ lastMix' = MixOf(pcm, m)
          /\ renderLoopTimer' = s.renderLoopTimer
          /\ armed' = s.armed
          /\ nextTimer' = s.nextTimer
  /\ wire' = <<>>
  /\ heard' = Hear(heard, wire')
  /\ last' = Op("encodeChunkThrows")
  /\ UNCHANGED <<hostVars, variant, timerBudget, sinkPool, currentPattern, currentCps, isPlaying, encoder,
                 clients, pcmBuffer, pending>>
  /\ UNCHANGED incOnly

\* ------------------------------------------------------- both variants
\* addClient(res) writing to the new response the buffers of the broadcasts
\* made just before it.
addClientReplays ==
  /\ \E s \in sinkPool \ clients :
       /\ s \in DOMAIN heard => heard[s] = <<>>
       /\ clients' = clients \cup {s}
       /\ heard' = Noted(heard, s,
                         <<WriteHead>> \o
                         [k \in 1..Len(wire) |-> Written(wire[k].data, TRUE)])
  /\ wire' = <<>>
  /\ lastMix' = NoMix
  /\ last' = Op("addClient")
  /\ UNCHANGED <<hostVars, variant, timerBudget, sinkPool, currentPattern, currentCps, isPlaying,
                 renderLoopTimer, encoder, ttsQueue, ttsOffset, armed, nextTimer>>
  /\ UNCHANGED incOnly
  /\ UNCHANGED preOnly

\* addClient(res) adding the response to the set without writeHead.
addClientNoHead ==
  /\ \E s \in sinkPool \ clients :
       /\ s \in DOMAIN heard => heard[s] = <<>>
       /\ clients' = clients \cup {s}
  /\ heard' = heard
  /\ wire' = <<>>
  /\ lastMix' = NoMix
  /\ last' = Op("addClient")
  /\ UNCHANGED <<hostVars, variant, timerBudget, sinkPool, currentPattern, currentCps, isPlaying,
                 renderLoopTimer, encoder, ttsQueue, ttsOffset, armed, nextTimer>>
  /\ UNCHANGED incOnly
  /\ UNCHANGED preOnly

\* addClient(res): writeHead, then the response joins the set.  A response
\* the behaviour follows is handed over once, when nothing was done to it yet.
addClient ==
  /\ \E s \in sinkPool \ clients :
       /\ s \in DOMAIN heard => heard[s] = <<>>
       /\ clients' = clients \cup {s}
       /\ heard' = Noted(heard, s, <<WriteHead>>)
  /\ wire' = <<>>
  /\ lastMix' = NoMix
  /\ last' = Op("addClient")
  /\ UNCHANGED <<hostVars, variant, timerBudget, sinkPool, currentPattern, currentCps, isPlaying,
                 renderLoopTimer, encoder, ttsQueue, ttsOffset, armed, nextTimer>>
  /\ UNCHANGED incOnly
  /\ UNCHANGED preOnly

\* The "close" event with a handler that leaves the response in the set.
clientCloseKeeps ==
  /\ \E s \in clients :
       /\ s \in DOMAIN heard
       /\ heard[s][Len(heard[s])] # Closed
       /\ heard' = Noted(heard, s, <<Closed>>)
  /\ clients' = clients
  /\ wire' = <<>>
  /\ lastMix' = NoMix
  /\ last' = Op("clientClose")
  /\ UNCHANGED <<hostVars, variant, timerBudget, sinkPool, currentPattern, currentCps, isPlaying,
                 renderLoopTimer, encoder, ttsQueue, ttsOffset, armed, nextTimer>>
  /\ UNCHANGED incOnly
  /\ UNCHANGED preOnly

\* The "close" event of a registered response.
clientClose ==
  /\ \E s \in clients :
       /\ clients' = clients \ {s}
       /\ heard' = Noted(heard, s, <<Closed>>)
  /\ wire' = <<>>
  /\ lastMix' = NoMix
  /\ last' = Op("clientClose")
  /\ UNCHANGED <<hostVars, variant, timerBudget, sinkPool, currentPattern, currentCps, isPlaying,
                 renderLoopTimer, encoder, ttsQueue, ttsOffset, armed, nextTimer>>
  /\ UNCHANGED incOnly
  /\ UNCHANGED preOnly

\* mixTtsAudio() resetting ttsOffset, which the source warns against.
mixTtsAudioResetsOffset ==
  /\ Len(ttsQueue) < MaxQueue
  /\ \E b \in TtsInputs : ttsQueue' = Append(ttsQueue, b)
  /\ ttsOffset' = 0
  /\ wire' = <<>>
  /\ heard' = Hear(heard, wire')
  /\ lastMix' = NoMix
  /\ last' = Op("mixTtsAudio")
  /\ UNCHANGED <<hostVars, variant, timerBudget, sinkPool, currentPattern, currentCps, isPlaying,
                 renderLoopTimer, clients, encoder, armed, nextTimer>>
  /\ UNCHANGED incOnly
  /\ UNCHANGED preOnly

mixTtsAudio ==
  /\ Len(ttsQueue) < MaxQueue
  /\ \E b \in TtsInputs : ttsQueue' = Append(ttsQueue, b)
  /\ wire' = <<>>
  /\ heard' = Hear(heard, wire')
  /\ lastMix' = NoMix
  /\ last' = Op("mixTtsAudio")
  /\ UNCHANGED <<hostVars, variant, timerBudget, sinkPool, currentPattern, currentCps, isPlaying,
                 renderLoopTimer, clients, encoder, ttsOffset, armed, nextTimer>>
  /\ UNCHANGED incOnly
  /\ UNCHANGED preOnly

Next ==
  \/ start
  \/ stop
  \/ setPattern
  \/ setCps
  \/ timerFire
  \/ renderChunkReturns
  \/ renderChunkThrows
  \/ preStart
  \/ preStop
  \/ preSetPattern
  \/ preSetCps
  \/ preRenderReturns
  \/ preRenderThrows
  \/ playAndBroadcast
  \/ addClient
  \/ clientClose

Spec == Init /\ [][Next]_vars
SpecDeep == InitDeep /\ [][Next]_vars

\* Both variants with no listener connected: the control calls, the render
\* loop and the pre-renders.
NextControl ==
  \/ start
  \/ stop
  \/ setPattern
  \/ setCps
  \/ timerFire
  \/ renderChunkReturns
  \/ renderChunkThrows
  \/ preStart
  \/ preStop
  \/ preSetPattern
  \/ preSetCps
  \/ preRenderReturns
  \/ preRenderThrows
  \/ playAndBroadcast

SpecControl == Init /\ [][NextControl]_vars

\* The incremental-render variant alone, with no listener connected.
InitInc(timers) == InitWith(timers) /\ variant = "incremental"

\* Its control calls and render loop at a tempo nobody changes.
NextConstantTempo ==
  \/ start
  \/ stop
  \/ setPattern
  \/ timerFire
  \/ renderChunkReturns
  \/ renderChunkThrows

InitTempo == InitInc(MaxTimers + 1)
SpecTempo == InitTempo /\ [][NextConstantTempo]_vars

\* Its control calls and render loop, the tempo changing too.
NextInc ==
  \/ start
  \/ stop
  \/ setPattern
  \/ setCps
  \/ timerFire
  \/ renderChunkReturns
  \/ renderChunkThrows

\* The same module over the shorter behaviours.
SpecInc == InitInc(MaxTimers) /\ [][NextInc]_vars

InitLoops == InitInc(MaxTimers + 2)

\* The incremental-render variant in its first session, playing with no
\* pattern, just after the cycle that made n completed ones ended `elapsed`
\* ms after the stream started at time StreamStart.
StreamStart == 1000
PacingElapsed == {50, 1990, 1995, 2000, 3995, 4000, 6000}
PacingCycles == 1..5
MidSession(n, elapsed) ==
  LET s == scheduleNextChunk(TRUE, StreamStart, n * CHUNK_DURATION,
                             StreamStart + elapsed, n, {}, n + 1)
  IN /\ variant = "incremental"
     /\ timerBudget = n + 1 + MaxTimers
     /\ sinkPool = Sinks
     /\ heard = NoneHeard
     /\ currentPattern = NoPattern
     /\ currentCps = 500
     /\ cyclePosition = n * 500 * CHUNK_DURATION
     /\ isPlaying = TRUE
     /\ renderLoopTimer = s.renderLoopTimer
     /\ clients = {}
     /\ encoder = NewEncoder(1)
     /\ ttsQueue = <<>>
     /\ ttsOffset = 0
     /\ streamStartTime = StreamStart
     /\ totalAudioSent = n * CHUNK_DURATION
     /\ armed = s.armed
     /\ nextTimer = s.nextTimer
     /\ inflight = {}
     /\ clock = StreamStart + elapsed
     /\ pcmBuffer = NoBuffer
     /\ bufferPosition = 0
     /\ pending = <<>>
     /\ wire = <<>>
     /\ lastMix = NoMix
     /\ last = [op |-> "init", wasPlaying |-> FALSE, stale |-> FALSE]
     /\ HostInit

\* n cycles take at least n minimum delays, and a cycle begins only when the
\* audio sent is no more than BUFFER_AHEAD_MS ahead.
InitPacing ==
  \E n \in PacingCycles, elapsed \in PacingElapsed :
    /\ elapsed >= n * MinDelayMs
    /\ n * CHUNK_DURATION * 1000 - elapsed <= BUFFER_AHEAD_MS + CHUNK_DURATION * 1000
    /\ MidSession(n, elapsed)

\* The render loop going on from there, with or without a pattern.
NextPacing ==
  \/ setPattern
  \/ timerFire
  \/ renderChunkReturns
  \/ renderChunkThrows

SpecPacing == InitPacing /\ [][NextPacing]_vars

\* The incremental-render variant with timers firing when due, over as many
\* cycles as it takes to send ten seconds of audio.
\* The caller sets a pattern only to begin playback, and stops the first
\* session only.
setPatternToPlay == ~isPlaying /\ setPattern
stopFirstSession == isPlaying /\ encoder.id = 1 /\ stop

\* The control calls of that caller and the render loop, the tempo changing.
NextLoops ==
  \/ start
  \/ stopFirstSession
  \/ setPatternToPlay
  \/ setCps
  \/ timerFire
  \/ renderChunkReturns

SpecLoops == InitLoops /\ [][NextLoops]_vars

NextBuildUp ==
  \/ setPatternToPlay
  \/ stopFirstSession
  \/ timePasses
  \/ timerFireDue
  \/ renderChunkReturns

InitBuildUp == InitInc(BuildUpTimers)
SpecBuildUp == InitBuildUp /\ [][NextBuildUp]_vars

\* Both variants playing chunk after chunk while announcements are submitted.
NextMix ==
  \/ start
  \/ setPattern
  \/ timerFire
  \/ renderChunkReturns
  \/ preStart
  \/ playAndBroadcast
  \/ mixTtsAudio

InitMix == InitWith(MaxTimers + 2)
SpecMix == InitMix /\ [][NextMix]_vars

\* Both variants with encodeChunk() throwing too, at the tempo of the start.
NextLive ==
  \/ start
  \/ stop
  \/ setPatternToPlay
  \/ timerFire
  \/ renderChunkReturns
  \/ renderChunkThrows
  \/ encodeChunkThrows
  \/ preStart
  \/ preStop
  \/ playAndBroadcast
  \/ preEncodeChunkThrows

\* The pre-render variant in its first session, playing, just after the
\* buffer buf was swapped in (or with none), the announcement queue holding
\* queue with offset samples of its first entry consumed.
PlaybackSession(buf, queue, offset) ==
  /\ variant = "prerender"
  /\ timerBudget = MaxTimers + 2
  /\ sinkPool = Sinks
  /\ heard = NoneHeard
  /\ currentPattern = IF buf = NoBuffer THEN NoPattern ELSE "p1"
  /\ currentCps = 500
  /\ cyclePosition = 0
  /\ isPlaying = TRUE
  /\ renderLoopTimer = 1
  /\ clients = {}
  /\ encoder = NewEncoder(1)
  /\ ttsQueue = queue
  /\ ttsOffset = offset
  /\ streamStartTime = 0
  /\ totalAudioSent = 0
  /\ armed = {Timer(1, CHUNK_DURATION * 1000, 1000)}
  /\ nextTimer = 2
  /\ inflight = {}
  /\ clock = 1000
  /\ pcmBuffer = buf
  /\ bufferPosition = 0
  /\ pending = <<>>
  /\ wire = <<>>
  /\ lastMix = NoMix
  /\ last = [op |-> "init", wasPlaying |-> FALSE, stale |-> FALSE]
  /\ HostInit

\* Sample levels of the buffers the renderer returned, up to full scale, and
\* the lengths of those buffers: shorter and longer than a chunk.
Levels == <<1000, -1000, 995, -5, 0, 5, -995, 500>>
PlaybackLens == {ChunkSamples - 1, ChunkSamples + 2}
PlaybackBuffers ==
  {<<[left  |-> [i \in 1..n |-> Levels[((i - 1) % Len(Levels)) + 1]],
      right |-> [i \in 1..n |-> -Levels[((i - 1) % Len(Levels)) + 1]]]>> :
     n \in PlaybackLens}

\* An announcement at full scale, and the queues submitted before the swap.
LoudTts == [left |-> <<1000, -1000>>, right |-> <<-1000, 1000>>]
RECURSIVE QueuesUpTo(_)
QueuesUpTo(n) ==
  IF n = 0 THEN {<<>>}
  ELSE LET shorter == QueuesUpTo(n - 1)
       IN shorter \cup {Append(q, b) : q \in shorter, b \in TtsInputs \cup {LoudTts}}

InitPlayback ==
  \E buf \in PlaybackBuffers \cup {NoBuffer}, queue \in QueuesUpTo(MaxQueue) :
    \E offset \in 0..(IF queue = <<>> THEN 0 ELSE Len(queue[1].left) - 1) :
      PlaybackSession(buf, queue, offset)

\* Playback going on from there while announcements are submitted.
NextPlayback ==
  \/ playAndBroadcast
  \/ mixTtsAudio

SpecPlayback == InitPlayback /\ [][NextPlayback]_vars

\* Playback going on over queues that also hold an announcement of no
\* samples, none of them begun.
EmptyTts == [left |-> <<>>, right |-> <<>>]
RECURSIVE QueuesOver(_, _)
QueuesOver(n, entries) ==
  IF n = 0 THEN {<<>>}
  ELSE LET shorter == QueuesOver(n - 1, entries)
       IN shorter \cup {Append(q, b) : q \in shorter, b \in entries}

InitQueue ==
  \E buf \in PlaybackBuffers \cup {NoBuffer},
     queue \in QueuesOver(MaxQueue, TtsInputs \cup {LoudTts, EmptyTts}) :
    PlaybackSession(buf, queue, 0)

SpecQueue == InitQueue /\ [][NextPlayback]_vars

\* The incremental-render variant playing on without stop() and without a
\* cycle that throws; an announcement is submitted while the cycles the
\* behaviour still runs can take all the samples queued.
CyclesLeft == timerBudget - Max(nextTimer, 2) + 1
Queued(queue, offset) == SamplesIn(queue) - offset

mixTtsAudioInTime ==
  /\ mixTtsAudio
  /\ Queued(ttsQueue', ttsOffset') <= ChunkSamples * CyclesLeft

InitDrain == InitInc(MaxTimers + 2)

NextDrain ==
  \/ start
  \/ setPatternToPlay
  \/ mixTtsAudioInTime
  \/ timerFire
  \/ renderChunkReturns

SpecDrain ==
  /\ InitDrain
  /\ [][NextDrain]_vars
  /\ WF_vars(timerFire)
  /\ WF_vars(renderChunkReturns)

\* The pre-render variant playing a buffer shorter or longer than a chunk,
\* or none, while patterns are submitted, their pre-renders resolve (the
\* last one starting playback again) and stop() is called.
InitPosition ==
  \E buf \in PlaybackBuffers \cup {NoBuffer} : PlaybackSession(buf, <<>>, 0)

NextPosition ==
  \/ playAndBroadcast
  \/ preSetPattern
  \/ preRenderReturns
  \/ preStop

SpecPosition == InitPosition /\ [][NextPosition]_vars

\* The pre-render variant alone: patterns and tempos are submitted, every
\* pre-render succeeds, nobody calls stop().
InitPre(timers) == InitWith(timers) /\ variant = "prerender"

NextSwap ==
  \/ preStart
  \/ preSetPattern
  \/ preSetCps
  \/ preRenderReturns
  \/ playAndBroadcast

SpecSwap == InitPre(MaxTimers) /\ [][NextSwap]_vars

\* Both variants with two responses connecting and going away while the
\* stream is started, played and stopped; both responses are followed, a
\* pattern is set only to begin playback, and stop() ends the first session only.
ListenerSinks == {"s1", "s2"}

InitListeners == InitFor(MaxTimers, ListenerSinks, ListenerSinks)

preStopFirstSession == isPlaying /\ encoder.id = 1 /\ preStop

NextListeners ==
  \/ addClient
  \/ clientClose
  \/ start
  \/ stopFirstSession
  \/ setPatternToPlay
  \/ timerFire
  \/ renderChunkReturns
  \/ preStart
  \/ preStopFirstSession
  \/ playAndBroadcast

SpecListeners == InitListeners /\ [][NextListeners]_vars

\* The same calls over two sessions, with one response, followed.
InitSessions == InitFor(MaxTimers + 2, Sinks, Sinks)
SpecSessions == InitSessions /\ [][NextListeners]_vars

\* The incremental-render variant with one response, followed, connecting
\* while the stream is started, stopped and started again.
InitOrder == InitFor(MaxTimers + 2, Sinks, Sinks) /\ variant = "incremental"

NextOrder ==
  \/ addClient
  \/ start
  \/ stopFirstSession
  \/ setPatternToPlay
  \/ timerFire
  \/ renderChunkReturns

SpecOrder == InitOrder /\ [][NextOrder]_vars

\* The incremental-render variant with cycles that throw, in renderChunk or
\* in encodeChunk, among cycles that complete.
InitFaults == InitInc(MaxTimers + 1)

NextFaults ==
  \/ start
  \/ stop
  \/ setPatternToPlay
  \/ timerFire
  \/ renderChunkReturns
  \/ renderChunkThrows
  \/ encodeChunkThrows

SpecFaults == InitFaults /\ [][NextFaults]_vars

\* The event loop runs what is runnable: an armed timer fires, a renderChunk
\* call returns or throws.
Fairness ==
  /\ WF_vars(timerFire)
  /\ WF_vars(playAndBroadcast)
  /\ WF_vars(renderChunkReturns \/ renderChunkThrows)

SpecLive == Init /\ [][NextLive]_vars /\ Fairness

\* ================================================================ claims
WireRange == {wire[i] : i \in 1..Len(wire)}

\* C1: in the incremental-render variant at most one render cycle is pending
\* (its timer armed) or in flight (suspended in renderChunk) at any time.
C1_AtMostOneCycle ==
  variant = "incremental" => Cardinality(armed) + Cardinality(inflight) <= 1

\* C2: in the incremental-render variant, while playback is stopped no
\* listener is written an audio buffer that a render cycle produced.
C2_NoAudioAfterStop ==
  (variant = "incremental" /\ ~isPlaying) =>
    \A w \in WireRange : w.data.kind = "audio" => w.to = {}

\* C3: encodeChunk() is never called on an encoder instance that flush() was
\* called on, and a render cycle's chunk is encoded by the encoder of the
\* session the cycle began in.
C3_EncoderNeverReused ==
  \A w \in WireRange :
    /\ w.data.kind # "flush" => w.data.after = 0
    /\ w.data.kind = "audio" => w.data.enc = w.data.session

\* C4: flush() is called at most once on an encoder instance, never while its
\* session is playing, and no encodeChunk() follows it on that instance.
C4_FlushExactlyOnce ==
  /\ encoder.flushed <= 1
  /\ isPlaying => encoder.flushed = 0
  /\ \A w \in WireRange : w.data.enc = encoder.id => w.data.after = 0

\* C5: when stop() has returned, playback is stopped and no timer is armed.
C5_StopCancelsAll ==
  last.op = "stop" => (~isPlaying /\ armed = {})

\* C6: stop() called while playback is stopped changes no state and writes
\* nothing to any listener.
C6_SecondStopNoop ==
  [][(last'.op = "stop" /\ ~isPlaying) =>
       (UNCHANGED progVars /\ wire' = <<>>)]_vars

\* C7: when stop() has returned, the pattern is null and the position
\* (cyclePosition, bufferPosition) is 0.
C7_StopClearsPosition ==
  last.op = "stop" =>
    (currentPattern = NoPattern /\ cyclePosition = 0 /\ bufferPosition = 0)

\* C8: playback goes from stopped to playing only in a start() call, a
\* setPattern() call, or the completion of a setPattern()/setCps() call that
\* no stop() has overtaken.
C8_StoppedUntilExplicitStart ==
  [][(~isPlaying /\ isPlaying') =>
       \/ last'.op \in {"start", "setPattern"}
       \/ (last'.op = "preRenderReturns" /\ ~last'.stale)]_vars

\* C9: start() called while playing changes nothing: no timer is armed, the
\* encoder is not replaced, the counters and the position stay.
C9_StartIdempotent ==
  [][(last'.op = "start" /\ isPlaying) => UNCHANGED progVars]_vars

\* A start() call made while playing, with a timer armed or a cycle in flight.
C9_Witness ==
  /\ last.op = "start"
  /\ last.wasPlaying
  /\ armed # {} \/ inflight # {}

\* What start() from stopped does, with the delay it arms the first cycle with.
StartsCleanly(delay) ==
  (last'.op = "start" /\ ~isPlaying) =>
    /\ isPlaying'
    /\ encoder' = NewEncoder(encoder.id + 1)
    /\ renderLoopTimer' = nextTimer
    /\ armed' = armed \cup {Timer(nextTimer, delay, clock')}
    /\ \A t \in armed : t.id # nextTimer
    /\ variant = "incremental" =>
         (totalAudioSent' = 0 /\ streamStartTime' = clock')

CyclesCompleted == totalAudioSent \div CHUNK_DURATION

\* C11: in the incremental-render variant, while playing at a tempo that did
\* not change since start(), cyclePosition is N * tempo * CHUNK_DURATION after
\* N completed cycles, and a cycle of the session that begins after N
\* completed ones renders [N * tempo * D, (N + 1) * tempo * D).
C11_PositionIsCyclesTimesTempo ==
  (variant = "incremental" /\ isPlaying) =>
    /\ cyclePosition = CyclesCompleted * currentCps * CHUNK_DURATION
    /\ \A c \in inflight :
         c.enc = encoder.id =>
           /\ c.cycleStart = CyclesCompleted * currentCps * CHUNK_DURATION
           /\ c.cycleEnd = (CyclesCompleted + 1) * currentCps * CHUNK_DURATION

\* C12: in the incremental-render variant no step other than stop() lowers
\* cyclePosition, and a step that completes a cycle raises it by a tempo
\* times CHUNK_DURATION.
C12_PositionMonotonic ==
  [][(variant = "incremental" /\ last'.op # "stop") =>
       /\ cyclePosition' >= cyclePosition
       /\ totalAudioSent' = totalAudioSent + CHUNK_DURATION =>
            \E c \in CpsValues :
              cyclePosition' = cyclePosition + c * CHUNK_DURATION]_vars

C14_RenderFailureIsSilence ==
  [][(variant = "incremental" /\ last'.op = "renderChunkThrows" /\ isPlaying) =>
       /\ isPlaying'
       /\ lastMix' # NoMix
       /\ lastMix'[1].before = Silence(ChunkSamples)
       /\ totalAudioSent' = totalAudioSent + CHUNK_DURATION
       /\ \A c \in inflight \ inflight' : cyclePosition' = c.cycleEnd]_vars

\* C15: whenever playback is playing and a timer handle is left for the next
\* cycle, then stop() is called or a further cycle runs to its end and arms
\* the next timer, whether the cycle before completed or threw.
C15_LoopNeverStalls ==
  \A k \in 1..MaxTimers :
    (isPlaying /\ nextTimer = k /\ k <= timerBudget)
      ~> (~isPlaying \/ nextTimer > k)

\* Playing after a cycle that threw, with a handle left for the next cycle.
C15_Witness ==
  /\ isPlaying
  /\ last.op \in {"renderChunkThrows", "encodeChunkThrows"}
  /\ last.wasPlaying
  /\ armed # {}

\* The delay of the timers a step arms in the incremental-render variant,
\* given what the delay is when the audio sent is aheadMs ahead, above the
\* threshold: scheduleNextChunk() runs last in the step, so it read the
\* values the step leaves.
ArmsWithDelay(Above(_)) ==
  variant = "incremental" =>
    \A t \in armed' \ armed :
      LET aheadMs == totalAudioSent' * 1000 - (clock' - streamStartTime')
      IN /\ t.delay = IF aheadMs > BUFFER_AHEAD_MS THEN Above(aheadMs)
                                                   ELSE MinDelayMs
         /\ t.delay >= MinDelayMs
         /\ t.at = clock'

FlooredExcess(aheadMs) == Max(aheadMs - BUFFER_AHEAD_MS, MinDelayMs)
Excess(aheadMs) == aheadMs - BUFFER_AHEAD_MS

\* C16 as amended: the delay armed for the next cycle is the larger of
\* aheadMs - 6000 and 10 ms when aheadMs exceeds 6000 ms, and 10 ms otherwise.
C16_PacingDelay == [][ArmsWithDelay(FlooredExcess)]_vars

\* C16 as stated: the delay is aheadMs - 6000 whenever aheadMs exceeds 6000 ms.
C16_Original == [][ArmsWithDelay(Excess)]_vars

\* A cycle has just ended more than 6000 ms ahead and armed a longer delay.
C16_Witness ==
  /\ variant = "incremental"
  /\ last.op \in {"timerFire", "renderChunkReturns"}
  /\ \E t \in armed : t.id = renderLoopTimer /\ t.delay > MinDelayMs

\* C17: in the incremental-render variant, when a cycle has just completed
\* while playing, the audio sent is at most BUFFER_AHEAD_MS plus one chunk
\* ahead of the wall-clock time since the stream started.
C17_BoundedBuildUp ==
  (variant = "incremental" /\ isPlaying /\ lastMix # NoMix) =>
    totalAudioSent * 1000 - (clock - streamStartTime)
      <= BUFFER_AHEAD_MS + CHUNK_DURATION * 1000

\* The announcement samples still to be mixed, in the order they are due:
\* the first entry from the consumption offset on, then the later entries.
RECURSIVE QueueStream(_, _)
QueueStream(queue, offset) ==
  IF Len(queue) = 0
    THEN [left |-> <<>>, right |-> <<>>]
    ELSE LET rest == QueueStream(Tail(queue), 0)
         IN [left  |-> SubSeq(queue[1].left, offset + 1, Len(queue[1].left))
                         \o rest.left,
             right |-> SubSeq(queue[1].right, offset + 1, Len(queue[1].right))
                         \o rest.right]

Drop(seq, k) == SubSeq(seq, k + 1, Len(seq))

\* C18: a mixTts() call made with the announcement queue empty leaves both
\* channels of the chunk as they were, the queue empty and ttsOffset as it was.
C18_EmptyQueueLeavesChunk ==
  [][(lastMix' # NoMix /\ Len(ttsQueue) = 0) =>
       /\ lastMix'[1].after = lastMix'[1].before
       /\ ttsQueue' = ttsQueue
       /\ ttsOffset' = ttsOffset]_vars

\* A chunk of music has just gone through mixTts() with the queue empty.
C18_Witness ==
  /\ lastMix # NoMix
  /\ Len(ttsQueue) = 0
  /\ ttsOffset = 0
  /\ lastMix[1].before.left[1] # 0
  /\ lastMix[1].after = lastMix[1].before

\* C19: a mixTts() call on a chunk of L samples mixes the first min(L, R) of
\* the R announcement samples still due into the first samples of the chunk,
\* in order, and leaves the others due; mixTtsAudio() appends its buffer
\* after them, whether or not a cycle is suspended; no other step changes
\* what is due.
C19_ConsumedInOrderOnce ==
  [][LET due == QueueStream(ttsQueue, ttsOffset)
         dueAfter == QueueStream(ttsQueue', ttsOffset')
     IN /\ lastMix' # NoMix =>
             LET before == lastMix'[1].before
                 after == lastMix'[1].after
                 k == Min(Len(before.left), Len(due.left))
             IN /\ \A i \in 1..k :
                     /\ after.left[i] = (before.left[i] * 4 + due.left[i] * 12) \div 10
                     /\ after.right[i] = (before.right[i] * 4 + due.right[i] * 12) \div 10
                /\ dueAfter = [left |-> Drop(due.left, k), right |-> Drop(due.right, k)]
                /\ Len(due.left) = k => (ttsQueue' = <<>> /\ ttsOffset' = 0)
        /\ last'.op = "mixTtsAudio" =>
             /\ \E b \in TtsInputs :
                  dueAfter = [left |-> due.left \o b.left, right |-> due.right \o b.right]
             /\ inflight' = inflight
        /\ (lastMix' = NoMix /\ last'.op # "mixTtsAudio") => dueAfter = due]_vars

\* An announcement longer than a chunk is part consumed, a cycle is suspended
\* in renderChunk, and a second announcement has just been submitted.
C19_Witness ==
  /\ last.op = "mixTtsAudio"
  /\ inflight # {}
  /\ Len(ttsQueue) = 2
  /\ ttsOffset > 0

\* C20: a mixTts() call on a chunk of L samples with R < L announcement
\* samples due leaves samples R..L-1 of both channels as they were.
C20_MusicPastAnnouncementsUntouched ==
  [][lastMix' # NoMix =>
       LET before == lastMix'[1].before
           after == lastMix'[1].after
           R == Len(QueueStream(ttsQueue, ttsOffset).left)
       IN /\ Len(after.left) = Len(before.left)
          /\ Len(after.right) = Len(before.right)
          /\ \A i \in (R + 1)..Len(before.left) :
               /\ after.left[i] = before.left[i]
               /\ after.right[i] = before.right[i]]_vars

\* A one-sample announcement has just been mixed into a chunk of music: the
\* first sample changed, the last did not, nothing is left in the queue.
C20_Witness ==
  /\ lastMix # NoMix
  /\ Len(ttsQueue) = 0
  /\ lastMix[1].before.left[ChunkSamples] # 0
  /\ lastMix[1].after.left[1] # lastMix[1].before.left[1]
  /\ lastMix[1].after.left[ChunkSamples] = lastMix[1].before.left[ChunkSamples]

EncodedIn == lastMix[1].after.left \o lastMix[1].after.right
EncodedOut(w) == w.data.int16.left \o w.data.int16.right

\* C28: encodeChunk() turns every sample into an integer of the signed 16-bit
\* range: -1 and below become -32768, +1 and above 32767, 0 becomes 0, a
\* sample between is scaled by 32768 below zero and by 32767 otherwise with
\* the fraction dropped, and a larger sample never gets a smaller integer.
C28_QuantizeClamped ==
  \A w \in WireRange :
    (w.data.kind = "audio" /\ lastMix # NoMix) =>
      LET x == EncodedIn
          y == EncodedOut(w)
      IN /\ Len(y) = Len(x)
         /\ \A i \in 1..Len(x) :
              /\ y[i] \in -32768..32767
              /\ x[i] <= -1000 => y[i] = -32768
              /\ x[i] >= 1000 => y[i] = 32767
              /\ x[i] = 0 => y[i] = 0
              /\ (-1000 < x[i] /\ x[i] < 0) => y[i] = -((-x[i] * 32768) \div 1000)
              /\ (0 <= x[i] /\ x[i] < 1000) => y[i] = (x[i] * 32767) \div 1000
         /\ \A i, j \in 1..Len(x) : x[i] <= x[j] => y[i] <= y[j]

\* A chunk holding 1.6, -1.6 and a sample just below -1 on both sides has
\* just been encoded and broadcast.
C28_Witness ==
  /\ lastMix # NoMix
  /\ \E w \in WireRange :
       /\ w.data.kind = "audio"
       /\ \E i, j, k \in 1..(2 * ChunkSamples) :
            /\ EncodedIn[i] = 1600 /\ EncodedOut(w)[i] = 32767
            /\ EncodedIn[j] = -1600 /\ EncodedOut(w)[j] = -32768
            /\ EncodedIn[k] = -995 /\ EncodedOut(w)[k] = -32604

\* C29: in the pre-render variant the k-th cycle after the buffer was swapped
\* in copies samples (k-1)*C .. k*C-1 of the buffer, counted modulo its length
\* B, and leaves bufferPosition at k*C mod B; a cycle with no buffer
\* installed produces C samples of silence.  Timer k begins the k-th cycle of
\* a session that began with the swap.
C29_CircularSlices ==
  [][(variant = "prerender" /\ lastMix' # NoMix) =>
       LET out == lastMix'[1].before
           C == ChunkSamples
       IN /\ Len(out.left) = C /\ Len(out.right) = C
          /\ pcmBuffer = NoBuffer => out = Silence(C)
          /\ pcmBuffer # NoBuffer =>
               LET buf == pcmBuffer[1]
                   B == Len(buf.left)
               IN \A t \in armed \ armed' :
                    /\ \A i \in 0..(C - 1) :
                         /\ out.left[i + 1] = buf.left[(((t.id - 1) * C + i) % B) + 1]
                         /\ out.right[i + 1] = buf.right[(((t.id - 1) * C + i) % B) + 1]
                    /\ bufferPosition' = (t.id * C) % B]_vars

\* The second or a later cycle has just copied a chunk that began inside the
\* buffer and wrapped around its end.
C29_Witness ==
  /\ variant = "prerender"
  /\ lastMix # NoMix
  /\ pcmBuffer # NoBuffer
  /\ nextTimer >= 4
  /\ bufferPosition # 0
  /\ bufferPosition < ChunkSamples

\* C30: in the pre-render variant, while playing a pattern with no
\* setPattern()/setCps() call suspended in its pre-render, pcmBuffer is the
\* render of currentPattern at currentCps, the values submitted last.
C30_BufferIsLatestRender ==
  (variant = "prerender" /\ isPlaying /\ pending = <<>>
     /\ currentPattern # NoPattern) =>
    pcmBuffer = <<renderChunk(currentPattern, 0, currentCps * BUFFER_DURATION,
                              currentCps)>>

\* No start() has run yet: start() alone replaces the encoder the module was
\* loaded with.
NeverStarted == encoder.id = 0

\* C27: before the first start() every control call can run to its end
\* (whatever the calls before it were); stop() leaves playback stopped with
\* no timer armed; setCps() changes the tempo and nothing else; setPattern()
\* installs the pattern and starts the loop: at once in the incremental-render
\* variant, when its pre-render resolves in the pre-render variant.
C27_SafeBeforeStart ==
  /\ [](NeverStarted =>
          IF variant = "incremental"
            THEN /\ ENABLED start
                 /\ ENABLED setPattern
                 /\ ENABLED setCps
                 /\ encoder.flushed < MaxFlushes => ENABLED stop
            ELSE /\ ENABLED preStart
                 /\ Len(pending) < MaxPending => ENABLED preSetPattern
                 /\ ENABLED preSetCps
                 /\ encoder.flushed < MaxFlushes => ENABLED preStop)
  /\ [][NeverStarted =>
          /\ last'.op = "stop" =>
               (~isPlaying' /\ armed' = {} /\ renderLoopTimer' = NoTimer)
          /\ last'.op = "setCps" =>
               (currentCps' \in CpsValues
                  /\ UNCHANGED <<currentPattern, isPlaying, armed, inflight,
                                 pending, pcmBuffer, encoder, cyclePosition>>)
          /\ (last'.op = "setPattern" /\ variant = "incremental") =>
               /\ currentPattern' \in Patterns
               /\ isPlaying'
               /\ Cardinality(armed') = 1
               /\ \A t \in armed' : t.id = renderLoopTimer'
          /\ (last'.op = "setPattern" /\ variant = "prerender") =>
               /\ currentPattern' \in Patterns
               /\ Len(pending') = Len(pending) + 1
               /\ pending'[Len(pending')].pattern = currentPattern'
          /\ last'.op = "preRenderReturns" =>
               /\ isPlaying'
               /\ pcmBuffer' # NoBuffer
               /\ Cardinality(armed') = 1
               /\ \A t \in armed' : t.id = renderLoopTimer']_vars

\* The loop has just been started for the first time, by a setPattern() call
\* that came after a setCps() call.
C27_Witness ==
  /\ isPlaying
  /\ encoder = [id |-> 1, flushed |-> 0]
  /\ last.op \in {"setPattern", "preRenderReturns"}
  /\ ~last.wasPlaying
  /\ currentCps = 1000
  /\ armed # {}

\* ------------------------------------------------------------ listeners
\* The clients broadcast call k of a step iterated: those registered when the
\* step began, less the ones deleted by the step's earlier calls.
Audience(writes, k, cl) == IF k = 1 THEN cl ELSE writes[k - 1].to

\* The items the step added to the log of response s.
NewItems(s) == SubSeq(heard'[s], Len(heard[s]) + 1, Len(heard'[s]))

\* The broadcast calls of a step that found response s registered.
CallsReaching(writes, s, cl) ==
  {k \in 1..Len(writes) : s \in Audience(writes, k, cl)}

\* C22: in every broadcast() call that writes a buffer, each client
\* registered when the call begins gets exactly one write() of that buffer,
\* whether or not the write to another client throws; a client whose write
\* throws is deleted by that call, so no later call of the step writes to it
\* and it is not registered afterwards; the caller goes on: the render cycle
\* still counts its chunk as sent; with no client the call writes to nobody
\* and leaves the set empty.
C22_FaultIsolation ==
  [][ /\ \A k \in 1..Len(wire') :
           LET w == wire'[k]
               reg == Audience(wire', k, clients)
           IN /\ w.to \cup w.failed = reg
              /\ w.to \cap w.failed = {}
              /\ w.failed \cap clients' = {}
              /\ (k = Len(wire') => clients' = w.to)
              /\ (reg = {} => clients' = {})
              /\ (variant = "incremental" /\ w.data.kind = "audio"
                    => totalAudioSent' = totalAudioSent + CHUNK_DURATION)
      /\ \A s \in clients \cap DOMAIN heard :
           wire' # <<>> =>
           /\ Len(NewItems(s)) = Cardinality(CallsReaching(wire', s, clients))
           /\ \A j \in 1..Len(NewItems(s)) :
                /\ NewItems(s)[j].what = "write"
                /\ NewItems(s)[j].data = wire'[j].data
                /\ NewItems(s)[j].ok = (s \in wire'[j].to)
    ]_vars

\* stop() has just broadcast the silence and the flushed bytes with two
\* clients registered: the write of the silence to one of them threw, the
\* other got both buffers.
C22_Witness ==
  /\ last.op = "stop"
  /\ Len(wire) = 2
  /\ \E s, r \in ListenerSinks :
       /\ s # r
       /\ wire[1].failed = {s}
       /\ wire[1].to = {r}
       /\ wire[2].to = {r}
       /\ clients = {r}
       /\ Len(heard[r]) >= 3


\* The buffers written to response s so far, in order.
RECURSIVE DataOf(_)
DataOf(items) ==
  IF items = <<>> THEN <<>>
  ELSE IF Head(items).what = "write"
         THEN <<Head(items).data>> \o DataOf(Tail(items))
         ELSE DataOf(Tail(items))

\* The buffers the broadcast calls of a step wrote, in order.
Broadcast(writes) == [k \in 1..Len(writes) |-> writes[k].data]

IsSuffix(a, b) ==
  /\ Len(a) <= Len(b)
  /\ a = SubSeq(b, Len(b) - Len(a) + 1, Len(b))

\* C23: addClient() writes no buffer to the new response; a response not
\* registered is written nothing; a registered one is written the buffers
\* broadcast by a step, in order, up to the write that throws if one does;
\* so of two registered responses the one that registered later has been
\* written exactly the last buffers written to the other.
C23_NoReplay ==
  /\ [][ \A s \in DOMAIN heard :
           /\ (s \notin clients /\ s \in clients' => NewItems(s) = <<WriteHead>>)
           /\ (s \notin clients /\ s \notin clients' => NewItems(s) = <<>>)
           /\ (s \in clients /\ s \in clients'
                 => DataOf(NewItems(s)) = Broadcast(wire'))
           /\ (s \in clients /\ s \notin clients' /\ wire' # <<>>
                 => /\ NewItems(s) # <<>>
                    /\ DataOf(NewItems(s)) =
                         SubSeq(Broadcast(wire'), 1, Len(NewItems(s)))
                    /\ ~NewItems(s)[Len(NewItems(s))].ok)
      ]_vars
  /\ [](\A s, r \in clients \cap DOMAIN heard :
          \/ IsSuffix(DataOf(heard[s]), DataOf(heard[r]))
          \/ IsSuffix(DataOf(heard[r]), DataOf(heard[s])))

\* A response registered after two buffers had been broadcast to another
\* one: it has been written the third buffer only.
C23_Witness ==
  \E s, r \in clients \cap DOMAIN heard :
    /\ Len(DataOf(heard[r])) = 3
    /\ DataOf(heard[s]) = <<DataOf(heard[r])[3]>>
    /\ DataOf(heard[r])[1] # DataOf(heard[r])[3]
    /\ DataOf(heard[r])[2] # DataOf(heard[r])[3]


\* getListenerCount(): clients.size.
getListenerCount == Cardinality(clients)

\* The followed responses that were handed to addClient() and since neither
\* emitted "close" nor had a write throw.
Listening ==
  {s \in DOMAIN heard :
     /\ heard[s] # <<>>
     /\ \A i \in 1..Len(heard[s]) :
          /\ heard[s][i] # Closed
          /\ (heard[s][i].what = "write" => heard[s][i].ok)}

\* C25: with every response followed, getListenerCount() is the number of
\* responses handed to addClient() that neither emitted "close" nor had a
\* write throw since, the registered ones are exactly those, and nothing is
\* written to a response after its "close".
C25_ListenerCount ==
  /\ sinkPool \subseteq DOMAIN heard
       => /\ getListenerCount = Cardinality(Listening)
          /\ clients = Listening
  /\ \A s \in DOMAIN heard :
       \A i, j \in 1..Len(heard[s]) :
         i < j /\ heard[s][i] = Closed => heard[s][j].what # "write"

\* Two responses were added and written a buffer, one of them closed, and a
\* buffer was broadcast after that: the count is 1.
C25_Witness ==
  /\ getListenerCount = 1
  /\ wire # <<>>
  /\ \E s, r \in DOMAIN heard :
       /\ clients = {r}
       /\ Len(heard[s]) >= 3
       /\ heard[s][Len(heard[s])] = Closed
       /\ Len(DataOf(heard[r])) > Len(DataOf(heard[s]))


\* C26: what is noted of a response begins with writeHead(200, audio/mpeg),
\* which is noted once, so before every write() of a buffer; a registered
\* response has had its writeHead.
C26_HeadFirstOnce ==
  \A s \in DOMAIN heard :
    /\ (s \in clients => heard[s] # <<>>)
    /\ (heard[s] # <<>>
          => /\ heard[s][1] = WriteHead
             /\ \A i \in 2..Len(heard[s]) : heard[s][i] # WriteHead)

\* A response has had its head and two buffers, the other one nothing yet.
C26_Witness ==
  \E s, r \in DOMAIN heard :
    /\ Len(heard[s]) >= 3
    /\ heard[s][2].what = "write"
    /\ heard[s][3].what = "write"
    /\ s \in clients
    /\ heard[r] = <<>>


\* C24: of the audio buffers written to a response that one encoder
\* encoded, that is within one session, each begins a render window that
\* starts later than the window of the buffer written before it.
C24_StrictRenderOrder ==
  \A s \in DOMAIN heard :
    LET d == DataOf(heard[s])
    IN \A i, j \in 1..Len(d) :
         /\ i < j
         /\ d[i].kind = "audio"
         /\ d[j].kind = "audio"
         /\ d[i].enc = d[j].enc
         => d[i].from < d[j].from


\* ------------------------------------------------------ failed cycles
\* C34: in the incremental-render variant a cycle that throws, in
\* renderChunk or in encodeChunk, leaves cyclePosition and totalAudioSent as
\* they were and broadcasts nothing; when the cycle was rendering the window
\* at cyclePosition, that window is still the next one to render.
C34_FailedCycleKeepsPosition ==
  [][(variant = "incremental"
        /\ last'.op \in {"renderChunkThrows", "encodeChunkThrows"})
       => /\ cyclePosition' = cyclePosition
          /\ totalAudioSent' = totalAudioSent
          /\ wire' = <<>>
          /\ clients' = clients
          /\ \A c \in inflight \ inflight' :
               c.cycleStart = cyclePosition => cyclePosition' = c.cycleStart]_vars

\* A cycle has just thrown after an earlier one completed; playback plays
\* on and the timer of the next cycle is armed.
C34_Witness ==
  /\ variant = "incremental"
  /\ last.op \in {"renderChunkThrows", "encodeChunkThrows"}
  /\ isPlaying
  /\ cyclePosition > 0
  /\ totalAudioSent > 0
  /\ armed # {}


\* ------------------------------------------------- announcement queue
\* C35: ttsOffset is 0 when the queue is empty and otherwise lies within
\* the head entry, below its length unless the entry has no samples;
\* mixTtsAudio() appends and leaves ttsOffset alone; a mixTts() call takes
\* from the front as many samples as the chunk has, or all there are, and
\* removes each entry it takes the last sample of before it returns.
C35_OffsetWithinHead ==
  /\ [](/\ ttsOffset >= 0
        /\ (ttsQueue = <<>> => ttsOffset = 0)
        /\ (ttsQueue # <<>>
              => /\ ttsOffset <= Len(ttsQueue[1].left)
                 /\ (ttsOffset < Len(ttsQueue[1].left) \/ ttsQueue[1] = EmptyTts)))
  /\ [][/\ last'.op = "mixTtsAudio"
            => /\ ttsOffset' = ttsOffset
               /\ SubSeq(ttsQueue', 1, Len(ttsQueue)) = ttsQueue
        /\ lastMix' # NoMix
            => LET n == Len(lastMix'[1].before.left)
                   k == Len(ttsQueue) - Len(ttsQueue')
                   used == SamplesIn(SubSeq(ttsQueue, 1, k)) - ttsOffset + ttsOffset'
               IN /\ k >= 0
                  /\ ttsQueue' = SubSeq(ttsQueue, k + 1, Len(ttsQueue))
                  /\ used <= n
                  /\ (ttsQueue' # <<>> => used = n)
       ]_vars

\* A mixTts() call has just consumed the rest of a begun entry and the
\* start of the next one.
C35_Witness ==
  /\ lastMix # NoMix
  /\ ttsQueue # <<>>
  /\ ttsOffset > 0
  /\ ttsOffset < Len(lastMix[1].before.left)
  /\ ttsOffset < Len(ttsQueue[1].left)


\* C36: in the incremental-render variant, playing on with every cycle
\* completing, a queue that holds announcements is empty some cycles later;
\* and the announcement samples a cycle takes from the queue are in the
\* first samples of the chunk that cycle hands to encodeChunk().
C36_QueueDrains ==
  /\ (isPlaying /\ ttsQueue # <<>>) ~> (ttsQueue = <<>>)
  /\ [][lastMix' # NoMix =>
          LET before == lastMix'[1].before
              after == lastMix'[1].after
              due == QueueStream(ttsQueue, ttsOffset).left
              k == Queued(ttsQueue, ttsOffset) - Queued(ttsQueue', ttsOffset')
          IN /\ k = Min(Len(before.left), Len(due))
             /\ \A i \in 1..k :
                  after.left[i] * 10 = before.left[i] * 4 + due[i] * 12
             /\ \A w \in {wire'[j] : j \in 1..Len(wire')} :
                  w.data.int16.left =
                    [i \in 1..Len(after.left) |-> FloatToInt16(after.left[i])]
       ]_vars

\* Two announcements were submitted, the second while the first was being
\* played, and the cycle that just completed took the last samples.
C36_Witness ==
  /\ variant = "incremental"
  /\ isPlaying
  /\ lastMix # NoMix
  /\ lastMix[1].after # lastMix[1].before
  /\ ttsQueue = <<>>
  /\ nextTimer > 3
  /\ wire # <<>>


\* The responses whose write() threw in the broadcasts of a step.
FailedIn(writes) == UNION {writes[k].failed : k \in 1..Len(writes)}

\* C37: stop() removes from the set only the responses whose write of the
\* silence or of the flushed bytes throws, does nothing to a response but
\* write those buffers to it, and leaves ttsQueue and ttsOffset as they were.
C37_StopKeepsListeners ==
  [][last'.op = "stop" =>
       /\ clients' = clients \ FailedIn(wire')
       /\ ttsQueue' = ttsQueue
       /\ ttsOffset' = ttsOffset
       /\ \A s \in DOMAIN heard :
            \A j \in 1..Len(NewItems(s)) :
              /\ NewItems(s)[j].what = "write"
              /\ NewItems(s)[j].data.kind \in {"silence", "flush"}
              /\ s \in clients]_vars

\* A response that registered in the first session was written audio of
\* that session, the buffers of stop(), then audio of the next session, and
\* had its writeHead once.
C37_Witness ==
  \E s \in clients \cap DOMAIN heard :
    \E i, j, k \in 1..Len(heard[s]) :
      /\ i < j /\ j < k
      /\ heard[s][i].what = "write" /\ heard[s][i].data.kind = "audio"
      /\ heard[s][i].data.enc = 1
      /\ heard[s][j].what = "write" /\ heard[s][j].data.kind = "silence"
      /\ heard[s][k].what = "write" /\ heard[s][k].data.kind = "audio"
      /\ heard[s][k].data.enc = 2
      /\ heard[s][k].ok


MaxRequests == 3
MaxDrains == 3
\* A step of http-server.ts, index.ts or the page that calls nothing of the
\* stream manager: its state stays, and its histories keep describing its
\* own last step.
StreamRests == UNCHANGED <<variant, timerBudget, sinkPool, heard, currentPattern, currentCps,
                           cyclePosition, isPlaying, renderLoopTimer, clients, encoder,
                           ttsQueue, ttsOffset, streamStartTime, totalAudioSent, armed,
                           nextTimer, inflight, clock, pcmBuffer, bufferPosition, pending,
                           wire, lastMix, last>>

\* A sequence without its i-th element: the call that resumes leaves the
\* suspended ones.
Without(seq, i) == SubSeq(seq, 1, i - 1) \o SubSeq(seq, i + 1, Len(seq))

\* String.prototype.trim() on a text given as its characters.
RECURSIVE Trim(_)
Trim(t) ==
  IF t = <<>> THEN t
  ELSE IF Head(t) = " " THEN Trim(Tail(t))
  ELSE IF t[Len(t)] = " " THEN Trim(SubSeq(t, 1, Len(t) - 1))
  ELSE t

\* The bodies posted to /api/request: one that is not JSON, and JSON objects
\* whose text is missing or empty, blank, plain, or padded with blanks.
Bodies ==
  {[json |-> FALSE, text |-> <<>>]} \cup
  {[json |-> TRUE, text |-> t] : t \in {<<>>, <<" ">>, <<"a">>, <<" ", "b", " ">>}}
\* The values of new Date().toISOString().
Stamps == {1, 2}

\* handleRequestPost up to `await parseBody(req)`.
handleRequestPost ==
  /\ Len(accepted) + Len(posts) < MaxRequests
  /\ \E body \in Bodies : posts' = Append(posts, body)
  /\ UNCHANGED <<pendingAction, requestQueue, serverPort, servers, busyPorts,
                 sessionActive, sessionId, sessionUrl, currentPatternCode,
                 lastVersion, polls, starting, evaluating,
                 accepted, drained, executed, returned>>
  /\ StreamRests

\* handleRequestPost from the return of parseBody: a body that is JSON with a
\* text that is not blank is pushed, any other is answered with 400.
parseBodyReturns ==
  /\ \E i \in DOMAIN posts, stamp \in Stamps :
       \E text \in {Trim(posts[i].text)} :
         /\ posts' = Without(posts, i)
         /\ IF posts[i].json /\ text # <<>>
            THEN /\ requestQueue' = Append(requestQueue, [text |-> text, timestamp |-> stamp])
                 /\ accepted' = Append(accepted, [text |-> text, timestamp |-> stamp])
                 /\ returned' = [of |-> "handleRequestPost", status |-> 200,
                                 queued |-> Len(requestQueue) + 1]
            ELSE /\ returned' = [of |-> "handleRequestPost", status |-> 400, queued |-> 0]
                 /\ UNCHANGED <<requestQueue, accepted>>
  /\ UNCHANGED <<pendingAction, serverPort, servers, busyPorts,
                 sessionActive, sessionId, sessionUrl, currentPatternCode,
                 lastVersion, polls, starting, evaluating, drained, executed>>
  /\ StreamRests

drainRequestsKeeps(queue) == [items |-> queue, requestQueue |-> queue]

\* drainRequests(): a copy of the queue is returned and the queue replaced by
\* an empty one.
drainRequests(queue) == [items |-> queue, requestQueue |-> <<>>]

\* The part check_requests and wait share: the queue is drained and every
\* item of it listed in the result.
DrainBy(tool) ==
  /\ Len(drained) < MaxDrains
  /\ \E d \in {drainRequests(requestQueue)} :
       /\ requestQueue' = d.requestQueue
       /\ drained' = Append(drained, d.items)
       /\ returned' = [of |-> tool, items |-> d.items]
  /\ UNCHANGED <<pendingAction, serverPort, servers, busyPorts,
                 sessionActive, sessionId, sessionUrl, currentPatternCode,
                 lastVersion, posts, polls, starting, evaluating, accepted, executed>>
  /\ StreamRests

check_requests == DrainBy("check_requests")
\* wait from the timeout it awaits.
wait == DrainBy("wait")

InitHost == InitWith(MaxTimers) /\ variant = "incremental"
NextRequests == handleRequestPost \/ parseBodyReturns \/ check_requests \/ wait
SpecRequests == InitHost /\ [][NextRequests]_vars

\* The items of the drains so far, one after another.
RECURSIVE Flatten(_)
Flatten(seqs) == IF seqs = <<>> THEN <<>> ELSE Head(seqs) \o Flatten(Tail(seqs))

\* C31: the requests handleRequestPost accepted are, in the order they were
\* accepted, the items the drainRequests() calls returned so far followed by
\* the queue: each accepted request is in one drain's result or still
\* queued, never in two and never lost; and a drain leaves the queue empty.
C31_ExactlyOnce ==
  /\ Flatten(drained) \o requestQueue = accepted
  /\ returned.of \in {"check_requests", "wait"} => requestQueue = <<>>

\* Two drains that each returned requests, with a post still being read.
C31_Witness ==
  /\ Len(drained) >= 2
  /\ drained[1] # <<>>
  /\ drained[2] # <<>>
  /\ posts # <<>>
  /\ returned.of = "wait"

\* ------------------------------------------------- the pending action
\* Versions one behaviour hands out and poll responses in flight at once.
MaxVersion == 3
MaxPolls == 2

\* setPendingCode(code): a new object with the next version; the version is
\* returned. An empty code is one handlePoll sends to the page as null.
setPendingCode ==
  /\ pendingAction.version < MaxVersion
  /\ \E code \in {"", "c1"} :
       pendingAction' = [action |-> "evaluate", code |-> code,
                         version |-> pendingAction.version + 1]
  /\ returned' = [of |-> "setPendingCode", version |-> pendingAction'.version]
  /\ UNCHANGED <<requestQueue, serverPort, servers, busyPorts,
                 sessionActive, sessionId, sessionUrl, currentPatternCode,
                 lastVersion, posts, polls, starting, evaluating,
                 accepted, drained, executed>>
  /\ StreamRests

\* setPendingStop(): the same with action "stop" and no code.
setPendingStop ==
  /\ pendingAction.version < MaxVersion
  /\ pendingAction' = [action |-> "stop", code |-> "",
                       version |-> pendingAction.version + 1]
  /\ returned' = [of |-> "setPendingStop", version |-> pendingAction'.version]
  /\ UNCHANGED <<requestQueue, serverPort, servers, busyPorts,
                 sessionActive, sessionId, sessionUrl, currentPatternCode,
                 lastVersion, posts, polls, starting, evaluating,
                 accepted, drained, executed>>
  /\ StreamRests

\* handlePoll answers a fetch of the page with the pending action as it is;
\* the page started the fetch from its interval timer or on load, whether
\* or not earlier fetches have been answered. An empty code is sent as null.
handlePoll ==
  /\ Len(polls) < MaxPolls
  /\ polls' = Append(polls, [action |-> pendingAction.action,
                             code |-> pendingAction.code,
                             version |-> pendingAction.version])
  /\ UNCHANGED <<pendingAction, requestQueue, serverPort, servers, busyPorts,
                 sessionActive, sessionId, sessionUrl, currentPatternCode,
                 lastVersion, posts, starting, evaluating,
                 accepted, drained, executed, returned>>
  /\ StreamRests

pollRunsAgain ==
  /\ \E i \in DOMAIN polls, editor \in BOOLEAN :
       LET data == polls[i] IN
       /\ polls' = Without(polls, i)
       /\ IF data.version >= lastVersion
          THEN /\ lastVersion' = data.version
               /\ executed' = IF editor /\ (data.action = "stop" \/ data.code # "")
                              THEN Append(executed, data.version) ELSE executed
          ELSE UNCHANGED <<lastVersion, executed>>
  /\ UNCHANGED <<pendingAction, requestQueue, serverPort, servers, busyPorts,
                 sessionActive, sessionId, sessionUrl, currentPatternCode,
                 posts, starting, evaluating, accepted, drained, returned>>
  /\ StreamRests

\* poll() of the page from the answer to its fetch, the answers arriving in
\* any order: a version above lastVersion is taken over, and its action run
\* when the editor is there and, to evaluate, the code is not empty.
poll ==
  /\ \E i \in DOMAIN polls, editor \in BOOLEAN :
       LET data == polls[i] IN
       /\ polls' = Without(polls, i)
       /\ IF data.version > lastVersion
          THEN /\ lastVersion' = data.version
               /\ executed' = IF editor /\ (data.action = "stop" \/ data.code # "")
                              THEN Append(executed, data.version) ELSE executed
          ELSE UNCHANGED <<lastVersion, executed>>
  /\ UNCHANGED <<pendingAction, requestQueue, serverPort, servers, busyPorts,
                 sessionActive, sessionId, sessionUrl, currentPatternCode,
                 posts, starting, evaluating, accepted, drained, returned>>
  /\ StreamRests

NextVersions == setPendingCode \/ setPendingStop \/ handlePoll \/ poll
SpecVersions == InitHost /\ [][NextVersions]_vars

\* C39: a step changes pendingAction.version only by adding 1, and only as a
\* setPendingCode() or setPendingStop() call, which returns the new version;
\* each such call adds 1. The page runs an action only of a version above
\* the last it took over, which then becomes the last; so the versions it
\* ran rise strictly and none is run twice.
C39_VersionCounter ==
  [][/\ pendingAction'.version # pendingAction.version =>
          /\ pendingAction'.version = pendingAction.version + 1
          /\ returned'.of \in {"setPendingCode", "setPendingStop"}
     /\ (returned' # returned /\ returned'.of \in {"setPendingCode", "setPendingStop"}) =>
          /\ pendingAction'.version = pendingAction.version + 1
          /\ returned'.version = pendingAction'.version
     /\ executed' # executed =>
          /\ Len(executed') = Len(executed) + 1
          /\ executed'[Len(executed')] > lastVersion
          /\ lastVersion' = executed'[Len(executed')]
     /\ lastVersion' >= lastVersion
     /\ \A i, j \in DOMAIN executed' : i < j => executed'[i] < executed'[j]]_vars

\* The page ran two actions and an answer it has not read yet carries a
\* version it already ran.
C39_Witness ==
  /\ Len(executed) = 2
  /\ \E i \in DOMAIN polls : polls[i].version = executed[2]
  /\ pendingAction.version > lastVersion

\* ------------------------------------------------- sessions and ports
MAX_PORT == 6020
\* The default of startHttpServer's port parameter.
DefaultPort == 6002
\* start_session calls that may be initialising at once.
MaxStarting == 2

\* The ports a listen() finds in use.
InUse == busyPorts \cup servers

\* start_session up to `await initEngine()`: with a session active the
\* session is reported, otherwise the call goes on to initialise.
start_session ==
  /\ IF sessionActive
     THEN /\ returned' = [of |-> "start_session", error |-> "none",
                          sessionId |-> sessionId, sessionUrl |-> sessionUrl]
          /\ UNCHANGED starting
     ELSE /\ Len(starting) < MaxStarting
          /\ starting' = Append(starting, [stage |-> "initEngine", port |-> 0])
          /\ UNCHANGED returned
  /\ UNCHANGED <<pendingAction, requestQueue, serverPort, servers, busyPorts,
                 sessionActive, sessionId, sessionUrl, currentPatternCode,
                 lastVersion, posts, polls, evaluating, accepted, drained, executed>>
  /\ StreamRests

\* initEngine() settles: when it resolves, startHttpServer() creates a server
\* and calls listen(6002); when it rejects, the tool returns the error.
initEngineSettles ==
  /\ \E i \in DOMAIN starting, ok \in BOOLEAN :
       /\ starting[i].stage = "initEngine"
       /\ IF ok
          THEN /\ starting' = [starting EXCEPT ![i] = [stage |-> "listen", port |-> DefaultPort]]
               /\ UNCHANGED returned
          ELSE /\ starting' = Without(starting, i)
               /\ returned' = [of |-> "start_session", error |-> "initEngine",
                               sessionId |-> sessionId, sessionUrl |-> sessionUrl]
  /\ UNCHANGED <<pendingAction, requestQueue, serverPort, servers, busyPorts,
                 sessionActive, sessionId, sessionUrl, currentPatternCode,
                 lastVersion, posts, polls, evaluating, accepted, drained, executed>>
  /\ StreamRests

\* The listen callback: the port was free. serverPort is set, the promise
\* resolves through the chain of startHttpServer calls, and start_session
\* resumes in the same turn: session id, URL, sessionActive, result.
listening ==
  /\ \E i \in DOMAIN starting, id \in {"dj-1", "dj-2"} :
       LET port == starting[i].port IN
       /\ starting[i].stage = "listen"
       /\ port \notin InUse
       /\ servers' = servers \cup {port}
       /\ serverPort' = port
       /\ sessionId' = id
       /\ sessionUrl' = <<"http", "lan", port>>
       /\ sessionActive' = TRUE
       /\ starting' = Without(starting, i)
       /\ returned' = [of |-> "start_session", error |-> "none",
                       sessionId |-> id, sessionUrl |-> sessionUrl']
  /\ UNCHANGED <<pendingAction, requestQueue, busyPorts, currentPatternCode,
                 lastVersion, posts, polls, evaluating, accepted, drained, executed>>
  /\ StreamRests

listenErrorTriesOn ==
  /\ \E i \in DOMAIN starting :
       LET port == starting[i].port IN
       /\ starting[i].stage = "listen"
       /\ port \in InUse
       /\ IF port > MAX_PORT
          THEN /\ starting' = Without(starting, i)
               /\ returned' = [of |-> "start_session", error |-> "No available ports",
                               sessionId |-> sessionId, sessionUrl |-> sessionUrl]
          ELSE /\ starting' = [starting EXCEPT ![i].port = port + 1]
               /\ UNCHANGED returned
  /\ UNCHANGED <<pendingAction, requestQueue, serverPort, servers, busyPorts,
                 sessionActive, sessionId, sessionUrl, currentPatternCode,
                 lastVersion, posts, polls, evaluating, accepted, drained, executed>>
  /\ StreamRests

\* The server's "error" event with EADDRINUSE: at MAX_PORT the promise is
\* rejected and start_session returns the error; below it
\* startHttpServer(port + 1) creates the next server and calls listen.
listenError ==
  /\ \E i \in DOMAIN starting :
       LET port == starting[i].port IN
       /\ starting[i].stage = "listen"
       /\ port \in InUse
       /\ IF port >= MAX_PORT
          THEN /\ starting' = Without(starting, i)
               /\ returned' = [of |-> "start_session", error |-> "No available ports",
                               sessionId |-> sessionId, sessionUrl |-> sessionUrl]
          ELSE /\ starting' = [starting EXCEPT ![i].port = port + 1]
               /\ UNCHANGED returned
  /\ UNCHANGED <<pendingAction, requestQueue, serverPort, servers, busyPorts,
                 sessionActive, sessionId, sessionUrl, currentPatternCode,
                 lastVersion, posts, polls, evaluating, accepted, drained, executed>>
  /\ StreamRests

\* The process as loaded, other processes holding none of the ports, the
\* first ones up to any of them, all but one, or some with gaps.
InitSession ==
  /\ StreamInit(MaxTimers, Sinks, {})
  /\ variant = "incremental"
  /\ \E busy \in {DefaultPort..k : k \in (DefaultPort - 1)..(MAX_PORT + 1)}
                 \cup {{DefaultPort, DefaultPort + 2}, (DefaultPort..MAX_PORT) \ {MAX_PORT - 1},
                       (DefaultPort..MAX_PORT) \ {DefaultPort + 3, MAX_PORT}} :
       HostStart(busy)
NextSession == start_session \/ initEngineSettles \/ listening \/ listenError
SpecSession == InitSession /\ [][NextSession]_vars

\* C32: startHttpServer tries the ports from 6002 upwards one by one, each
\* attempt one above the failed one and none above 6020, so it ends after
\* at most 19 attempts; it resolves with the lowest port of 6002..6020 not
\* in use, which serverPort then holds, and rejects with "No available
\* ports" only when every port of the range is in use.
C32_LowestFreePort ==
  [][/\ \A i \in DOMAIN starting' :
          starting'[i].stage = "listen" =>
            /\ starting'[i].port \in DefaultPort..MAX_PORT
            /\ (DefaultPort..(starting'[i].port - 1)) \subseteq InUse
     /\ Len(starting') = Len(starting) =>
          \A i \in DOMAIN starting :
            (starting[i].stage = "listen" /\ starting'[i] # starting[i]) =>
              starting'[i] = [stage |-> "listen", port |-> starting[i].port + 1]
     /\ servers' # servers =>
          \E p \in DefaultPort..MAX_PORT :
            /\ servers' = servers \cup {p}
            /\ p \notin InUse
            /\ (DefaultPort..(p - 1)) \subseteq InUse
            /\ serverPort' = p
     /\ (returned' # returned /\ returned'.error = "No available ports") =>
          /\ (DefaultPort..MAX_PORT) \subseteq InUse
          /\ servers' = servers]_vars

\* One call found the only free port, the one below the last, and a call
\* after it was rejected at the last.
C32_Witness ==
  /\ serverPort = MAX_PORT - 1
  /\ servers = {MAX_PORT - 1}
  /\ busyPorts = (DefaultPort..MAX_PORT) \ {MAX_PORT - 1}
  /\ returned.error = "No available ports"

\* C40: once a session is active no step starts another HTTP server or
\* replaces the session id or the URL.
C40_OneSession ==
  [][sessionActive => UNCHANGED <<servers, sessionId, sessionUrl>>]_vars

\* ------------------------------------------------------ play_pattern
\* play_pattern calls that may be evaluating at once.
MaxEvaluating == 2

\* play_pattern up to `await evaluatePattern(code)`: without a session the
\* tool returns an error. The codes: two that evaluate and one that does not.
play_pattern ==
  /\ IF ~sessionActive
     THEN /\ returned' = [of |-> "play_pattern", error |-> "No active session"]
          /\ UNCHANGED evaluating
     ELSE /\ Len(evaluating) < MaxEvaluating
          /\ \E code \in {"c1", "c2", "bad"} : evaluating' = Append(evaluating, code)
          /\ UNCHANGED returned
  /\ UNCHANGED <<pendingAction, requestQueue, serverPort, servers, busyPorts,
                 sessionActive, sessionId, sessionUrl, currentPatternCode,
                 lastVersion, posts, polls, starting, accepted, drained, executed>>
  /\ StreamRests

\* evaluatePattern resolves: setPattern(pattern), which starts the stream
\* when it is not playing, then setCurrentPatternCode(code) and the result.
evaluatePatternReturns ==
  /\ variant = "incremental"
  /\ \E i \in DOMAIN evaluating :
       /\ evaluating[i] # "bad"
       /\ currentPattern' = (IF evaluating[i] = "c1" THEN "p1" ELSE "p2")
       /\ currentPatternCode' = evaluating[i]
       /\ evaluating' = Without(evaluating, i)
  /\ \E now \in NowValues : (isPlaying => now = clock) /\ startCall(now)
  /\ returned' = [of |-> "play_pattern", error |-> "none"]
  /\ wire' = <<>>
  /\ heard' = Hear(heard, wire')
  /\ lastMix' = NoMix
  /\ last' = Op("setPattern")
  /\ UNCHANGED <<pendingAction, requestQueue, serverPort, servers, busyPorts,
                 sessionActive, sessionId, sessionUrl,
                 lastVersion, posts, polls, starting, accepted, drained, executed>>
  /\ UNCHANGED <<variant, timerBudget, sinkPool, currentCps, cyclePosition, clients, ttsQueue,
                 ttsOffset, inflight>>
  /\ UNCHANGED preOnly

evaluatePatternThrowsShowsCode ==
  /\ \E i \in DOMAIN evaluating :
       /\ evaluating[i] = "bad"
       /\ currentPatternCode' = evaluating[i]
       /\ evaluating' = Without(evaluating, i)
  /\ returned' = [of |-> "play_pattern", error |-> "Pattern evaluation error"]
  /\ UNCHANGED <<pendingAction, requestQueue, serverPort, servers, busyPorts,
                 sessionActive, sessionId, sessionUrl,
                 lastVersion, posts, polls, starting, accepted, drained, executed>>
  /\ StreamRests

\* evaluatePattern rejects: the catch block builds the error result.
evaluatePatternThrows ==
  /\ \E i \in DOMAIN evaluating :
       /\ evaluating[i] = "bad"
       /\ evaluating' = Without(evaluating, i)
  /\ returned' = [of |-> "play_pattern", error |-> "Pattern evaluation error"]
  /\ UNCHANGED <<pendingAction, requestQueue, serverPort, servers, busyPorts,
                 sessionActive, sessionId, sessionUrl, currentPatternCode,
                 lastVersion, posts, polls, starting, accepted, drained, executed>>
  /\ StreamRests

\* The process after its first start_session call returned, or still with
\* no session.
InitPlay ==
  /\ StreamInit(MaxTimers, Sinks, {})
  /\ variant = "incremental"
  /\ pendingAction = [action |-> "evaluate", code |-> "", version |-> 0]
  /\ requestQueue = <<>>
  /\ busyPorts = {}
  /\ sessionActive \in BOOLEAN
  /\ IF sessionActive
     THEN /\ serverPort = DefaultPort
          /\ servers = {DefaultPort}
          /\ sessionId = "dj-1"
          /\ sessionUrl = <<"http", "lan", DefaultPort>>
          /\ returned = [of |-> "start_session", error |-> "none",
                         sessionId |-> sessionId, sessionUrl |-> sessionUrl]
     ELSE /\ serverPort = 0
          /\ servers = {}
          /\ sessionId = ""
          /\ sessionUrl = ""
          /\ returned = [of |-> "none"]
  /\ currentPatternCode = ""
  /\ lastVersion = 0
  /\ posts = <<>>
  /\ polls = <<>>
  /\ starting = <<>>
  /\ evaluating = <<>>
  /\ accepted = <<>>
  /\ drained = <<>>
  /\ executed = <<>>
NextPlay ==
  \/ play_pattern \/ evaluatePatternReturns \/ evaluatePatternThrows
  \/ setCps \/ timerFire \/ renderChunkReturns
SpecPlay == InitPlay /\ [][NextPlay]_vars

\* C33: the step in which a play_pattern call ends because evaluatePattern
\* threw returns the evaluation error and changes neither the pattern, the
\* displayed code, the tempo nor any other state of the stream: what was
\* playing goes on as it was.
C33_FailedPlayKeepsPlayback ==
  [][(Len(evaluating') < Len(evaluating) /\ returned'.error # "none") =>
       /\ returned'.error = "Pattern evaluation error"
       /\ UNCHANGED <<currentPattern, currentPatternCode, currentCps>>
       /\ UNCHANGED progVars]_vars

\* A play_pattern call has just failed while the pattern of an earlier call
\* is playing, a render of it in progress and the next cycle scheduled.
C33_Witness ==
  /\ returned = [of |-> "play_pattern", error |-> "Pattern evaluation error"]
  /\ isPlaying
  /\ currentPattern = "p1"
  /\ currentPatternCode = "c1"
  /\ currentCps = 1000
  /\ inflight # {}

====
